---- MODULE Spec2Model ----
(***************************************************************************)
(* IntelliGo: the multi-turn dialogue orchestration core.                  *)
(*                                                                         *)
(* One session of the assistant is modelled as a state machine.  A turn    *)
(* is started by the hosting interface (HTTP chat handler or CLI loop),    *)
(* runs the stages of the graph of src/graph/builder.py one at a time on   *)
(* the turn state (GraphState), and ends either with the final state       *)
(* being stored for the session or with a stage raising.                   *)
(*                                                                         *)
(* Texts are sequences of tokens (a token stands for a character or for a  *)
(* keyword that is only ever matched as a whole), so that Python's         *)
(* substring test `k in text` is computed, not assumed.                    *)
(* The results of the external services (rewriter, router, planner,        *)
(* weather provider, memory store, text generation) are inputs drawn from  *)
(* small sets; the variable `scenario` selects which part of the input     *)
(* space the environment of this session draws from.                       *)
(***************************************************************************)
EXTENDS Integers, Sequences, FiniteSets, TLC

VARIABLES
    scenario,     \* class of inputs the environment draws from (fixed per run)
    frontend,     \* "http" (src/server.py) or "cli" (src/main.py)
    pc,           \* position: "idle", the stage about to run, or "END"
    state,        \* GraphState of the current / last turn
    last_state,   \* last_state of chat() / run_cli(): what the turn is seeded from
    store,        \* InMemorySessionStore record of the session (http only)
    reply,        \* what the caller received for the last finished turn
    trace,        \* stages executed so far in the current turn
    \* The session store shared by the request threads (src/core/session_store.py).
    now,          \* time.time(), in ticks
    session_db,   \* InMemorySessionStore._db: session id -> SessionRecord
    written,      \* history: the last set() of each session, cleared by reset()
    got,          \* the last get() that returned, and what it returned
    popping,      \* per thread: the session whose expired record it is about to pop
    \* The long-term memory (src/memory/vector_store.py).
    memory,       \* documents of the user's Chroma collection, in insertion order
    \* The administrative wipe (src/server.py, src/main.py, src/config.py).
    purge_token,  \* config.purge_token; <<>> when PURGE_TOKEN is not set
    command,      \* the last wipe command received: the token typed and the text sent
    \* The weather tool (src/tools/weather.py).
    weather_call,   \* the last call: mode, city, days, API key, the provider's answer
    weather_result, \* what the call returned, or that it raised
    \* Concurrent turns and the objects they share (src/core/assistant.py).
    heap,         \* the UserIntent and TripPlan objects, by identity; 0 fields when free
    turns,        \* per request thread: its position and the objects its state refers to
    held          \* per session: the objects the stored final state refers to

turn_vars == <<scenario, frontend, pc, state, last_state, store, reply, trace>>
store_vars == <<now, session_db, written, got, popping>>
memory_vars == <<memory>>
admin_vars == <<purge_token, command>>
weather_vars == <<weather_call, weather_result>>
alias_vars == <<heap, turns, held>>
aux_vars == <<store_vars, memory_vars, admin_vars, weather_vars, alias_vars>>
\* What the actions of one component leave alone.
store_frame == <<turn_vars, memory_vars, admin_vars, weather_vars, alias_vars>>
memory_frame == <<turn_vars, store_vars, admin_vars, weather_vars, alias_vars>>
weather_frame == <<turn_vars, store_vars, memory_vars, admin_vars, alias_vars>>
alias_frame == <<turn_vars, store_vars, memory_vars, admin_vars, weather_vars>>
vars == <<turn_vars, aux_vars>>

----------------------------------------------------------------------------
(* Bounds of the model. *)

MaxQs == 4          \* questions returned by the rewriter in one turn
MaxDays == 2        \* day-entries returned by the planner in one call
MaxTime == 4        \* ticks of the clock the session store is observed for
MaxLen == 4         \* characters of a preference text
MaxDocs == 2        \* documents the memory is observed up to
MaxCasts == 2       \* day-entries in a forecast answer of the weather provider
MaxObjs == 4        \* objects created by the turns that are observed

----------------------------------------------------------------------------
(* Python helpers. *)

\* `kw in text` on strings: kw occurs as a contiguous run of text.
Contains(text, kw) ==
    \E i \in 0..(Len(text) - Len(kw)) : SubSeq(text, i + 1, i + Len(kw)) = kw

\* any(k in text for k in kws)
AnyIn(kws, text) == \E k \in kws : Contains(text, k)

\* x in seq (membership in a list)
InList(x, s) == \E i \in 1..Len(s) : s[i] = x

\* list(dict.fromkeys(s)): first occurrences, order kept.
Dedup(s) ==
    LET F[i \in 0..Len(s)] ==
            IF i = 0 THEN <<>>
            ELSE IF InList(s[i], F[i - 1]) THEN F[i - 1]
                 ELSE Append(F[i - 1], s[i])
    IN  F[Len(s)]

\* s[:n]
Take(s, n) == SubSeq(s, 1, IF Len(s) < n THEN Len(s) ELSE n)

\* The sequences over S of length at most n.
SeqsUpTo(S, n) == UNION {[1..k -> S] : k \in 0..n}

----------------------------------------------------------------------------
(* Values.  Absent, None, "" and 0 are all read alike by the code          *)
(* (`x.get(k) or default`, `if x.get(k)`), so a missing key of a dict is   *)
(* the empty value of its field.                                           *)

IntentTypes == {"clothing_advice", "trip_planning", "general_qa", "general_chat", "unknown"}

\* entities["cities"]
CityA == "chengdu"
CityB == "wuhan"
CityOther == "leshan"        \* a city the planner may name that was never asked for
FallbackCity == "beijing"    \* "北京" of node_fetch_weather

\* Place names: "西湖", "杭州西湖" (contains "西湖"), "灵隐寺".
PlaceXihu == <<"xihu">>
PlaceHzXihu == <<"hangzhou", "xihu">>
PlaceLingyin == <<"lingyin">>

\* Weather condition texts: "晴", "小雨", "暴雨", "大雪".
CondSunny == <<"qing">>
CondRain == <<"xiao", "yu">>
CondStorm == <<"bao", "yu">>
CondSnow == <<"da", "xue">>
KwRain == <<"yu">>
KwStorm == <<"bao">>
KwSnow == <<"xue">>

\* Clarifying questions.  "天" is a token of its own because the code tests
\* "天", "几天" and "天数".
QDefault == <<"yuji", "wan", "ji", "tian", "chugao">>   \* the question of the default policy
QHowManyDays == <<"wan", "ji", "tian">>                  \* "玩几天?"
QWhichDay == <<"na", "tian", "chufa">>                   \* "哪天出发?": "天" without "几天"
QHowLong == <<"wan", "duojiu">>                          \* "玩多久?"
QCity == <<"qu", "chengshi">>                            \* "去哪个城市?"
QBudget == <<"yusuan", "duoshao">>                       \* "预算多少?"
KwTian == <<"tian">>
KwJiTian == <<"ji", "tian">>
CityKws == {<<"chengshi">>, <<"mudidi">>, <<"quna">>, <<"quyu">>}
DurationKws == {<<"ji", "tian">>, <<"tian", "shu">>, <<"duojiu">>}

\* User texts.
TextPlain == <<"qu", "wan">>
TextFollowUp == <<"an", "xingcheng", "chuanda">>         \* "按行程...穿搭"
TextOutfitSet == <<"peitao", "chuanda">>                  \* "配套穿搭"
TextPlanOutfitSet == <<"an", "xingcheng", "peitao", "chuanda">>   \* "按行程给配套穿搭"
PlanKws == {<<"zhiqian">>, <<"shangmian">>, <<"gangcai">>, <<"xingcheng">>,
            <<"chuxingjihua">>, <<"lvxingjihua">>, <<"an", "xingcheng">>,
            <<"jiehe", "xingcheng">>}
OutfitKws == {<<"chuanda">>, <<"yifu">>, <<"daishenme">>, <<"zenmechuan">>,
              <<"peitao">>, <<"outfit">>, <<"chuanshenme">>}
KwAdvice == <<"jianyi">>
ActivityOutfitKws == {<<"genju", "wode", "huodong">>, <<"an", "huodong">>,
                      <<"an", "wode", "huodong">>, <<"huodong", "he", "qiwen">>,
                      <<"changjing">>, <<"peitao">>, <<"chuanda", "fangan">>,
                      <<"yishen">>, <<"outfit">>}

\* Texts asking to adjust the plan.  "更好玩" holds both "更好" and "好玩".
TextMoreFun == <<"geng", "hao", "wan">>                   \* "更好玩"
TextQuietCheap == <<"anjing", "pianyi">>                  \* "安静...便宜"
TextInteresting == <<"youqu">>                            \* "有趣"

\* str.lower(): the one upper-case token of the model.
Lower(text) ==
    [i \in 1..Len(text) |->
        CASE text[i] = "OUTFIT" -> "outfit"
          [] text[i] = "A" -> "a"
          [] text[i] = "/CLEAR" -> "/clear"
          [] OTHER -> text[i]]

\* Response texts, by what they are made of.
NoText == [kind |-> "", questions |-> <<>>]
AskCityText == [kind |-> "ask_city", questions |-> <<>>]
AskActivityText == [kind |-> "ask_activity", questions |-> <<>>]
ClothingText == [kind |-> "clothing", questions |-> <<>>]
FallbackText == [kind |-> "fallback", questions |-> <<>>]
AnswerText == [kind |-> "answer", questions |-> <<>>]
PlanText(qs) == [kind |-> "plan", questions |-> qs]

\* UserIntent | None
ExtractedEmpty ==
    [cities |-> <<>>, dates |-> <<>>, duration_days |-> 0, preferences |-> <<>>,
     budget |-> "", excluded_places |-> <<>>, included_places |-> <<>>]
NoIntent == [present |-> FALSE, intent_type |-> "", confidence |-> 0,
             extracted_entities |-> ExtractedEmpty]
\* TripPlan | None
NoPlan == [present |-> FALSE, days |-> <<>>]
\* WeatherInfo | None
NoWeather == [present |-> FALSE, weather |-> <<>>]
WeatherInfo(cond) == [present |-> TRUE, weather |-> cond]
\* TripDay(date, city, activities, weather): risk_level and backup_plan take their defaults.
TripDay(city, activities, weather) ==
    [city |-> city, activities |-> activities, weather |-> weather,
     risk_level |-> "low", backup_plan |-> ""]

EntitiesEmpty ==
    [cities |-> <<>>, duration_days |-> 0, dates |-> <<>>, preferences |-> <<>>, budget |-> ""]
SlotsEmpty ==
    [cities |-> <<>>, duration_days |-> 0, preferences |-> <<>>, budget_text |-> "",
     dates_text |-> ""]

\* GraphState(): every field at its default.
GraphState ==
    [messages |-> <<>>, user_input |-> <<>>, rewritten_query |-> <<>>,
     rewrite_slots |-> SlotsEmpty, duration_days_is_default |-> FALSE,
     need_clarification |-> FALSE, clarifying_questions |-> <<>>, clarify_only |-> FALSE,
     intent |-> NoIntent, entities |-> EntitiesEmpty, excluded_places |-> <<>>,
     included_places |-> <<>>, weather_data |-> <<>>, user_profile |-> "",
     trip_plan |-> NoPlan, clothing_advice |-> NoText, final_response |-> NoText,
     current_node |-> "", needs_replan |-> FALSE, error_message |-> ""]

\* A stage returns a partial update; the graph merges it into the state.
Update(st, upd) == [k \in DOMAIN st |-> IF k \in DOMAIN upd THEN upd[k] ELSE st[k]]

\* Optional[Dict]: the session state or None.
None == [present |-> FALSE, state |-> GraphState]
Some(st) == [present |-> TRUE, state |-> st]

----------------------------------------------------------------------------
(* The stages (src/graph/nodes.py).  Each is the function of the state    *)
(* and of the external service's result that the code computes, and       *)
(* returns the partial update the stage returns.                           *)

\* The default question is inserted unless some returned question holds "天"
\* ("几天" in q or "天" in q).
ImpliesDuration(q) == Contains(q, KwJiTian) \/ Contains(q, KwTian)

\* r: the RewriteResult of rewriter.rewrite(user_input).
node_rewrite(st, r) ==
    LET absent == r.slots.duration_days = 0
        slots == IF absent THEN [r.slots EXCEPT !.duration_days = 1] ELSE r.slots
        qs == IF absent /\ ~(\E i \in 1..Len(r.clarifying_questions) :
                                ImpliesDuration(r.clarifying_questions[i]))
              THEN <<QDefault>> \o r.clarifying_questions
              ELSE r.clarifying_questions
    IN  [rewritten_query |-> r.rewritten_query,
         rewrite_slots |-> slots,
         need_clarification |-> r.need_clarification,
         clarifying_questions |-> Take(qs, 3),
         duration_days_is_default |-> absent,
         current_node |-> "rewrite"]

\* Variant: the slot's duration supplements the extraction even when it is the default.
NewEntities_defaulted(st, ex) ==
    LET rs == st.rewrite_slots
    IN  [cities |-> IF rs.cities # <<>> /\ ex.cities = <<>> THEN rs.cities ELSE ex.cities,
         duration_days |->
             IF rs.duration_days # 0 /\ ex.duration_days = 0
             THEN rs.duration_days ELSE ex.duration_days,
         preferences |->
             IF rs.preferences # <<>> /\ ex.preferences = <<>>
             THEN rs.preferences ELSE ex.preferences,
         budget |-> IF rs.budget_text # "" /\ ex.budget = "" THEN rs.budget_text ELSE ex.budget,
         dates |-> IF rs.dates_text # "" /\ ex.dates = <<>> THEN <<rs.dates_text>> ELSE ex.dates,
         excluded_places |-> ex.excluded_places,
         included_places |-> ex.included_places]

\* new_entities: the router's extraction supplemented by the rewrite slots.
NewEntities(st, ex) ==
    LET rs == st.rewrite_slots
    IN  [cities |-> IF rs.cities # <<>> /\ ex.cities = <<>> THEN rs.cities ELSE ex.cities,
         duration_days |->
             IF rs.duration_days # 0 /\ ex.duration_days = 0 /\ ~st.duration_days_is_default
             THEN rs.duration_days ELSE ex.duration_days,
         preferences |->
             IF rs.preferences # <<>> /\ ex.preferences = <<>>
             THEN rs.preferences ELSE ex.preferences,
         budget |-> IF rs.budget_text # "" /\ ex.budget = "" THEN rs.budget_text ELSE ex.budget,
         dates |-> IF rs.dates_text # "" /\ ex.dates = <<>> THEN <<rs.dates_text>> ELSE ex.dates,
         excluded_places |-> ex.excluded_places,
         included_places |-> ex.included_places]

\* Variant: the preferences are concatenated without removing duplicates.
MergeEntities_nodedup(old, new) ==
    [cities |-> IF new.cities # <<>> THEN new.cities ELSE old.cities,
     duration_days |-> IF new.duration_days # 0 THEN new.duration_days ELSE old.duration_days,
     dates |-> IF new.dates # <<>> THEN new.dates ELSE old.dates,
     preferences |-> IF new.preferences # <<>>
                     THEN old.preferences \o new.preferences ELSE old.preferences,
     budget |-> IF new.budget # "" THEN new.budget ELSE old.budget]

\* Variant: merged["cities"] takes this turn's extraction even when it is empty.
MergeEntities_overwrite(old, new) ==
    [cities |-> new.cities,
     duration_days |-> IF new.duration_days # 0 THEN new.duration_days ELSE old.duration_days,
     dates |-> IF new.dates # <<>> THEN new.dates ELSE old.dates,
     preferences |-> IF new.preferences # <<>>
                     THEN Dedup(old.preferences \o new.preferences) ELSE old.preferences,
     budget |-> IF new.budget # "" THEN new.budget ELSE old.budget]

\* merged: the carried entities reconciled with new_entities, field by field.
\* Variant: new dates extend the earlier ones.
MergeEntities_uniondates(old, new) ==
    [cities |-> IF new.cities # <<>> THEN new.cities ELSE old.cities,
     duration_days |-> IF new.duration_days # 0 THEN new.duration_days ELSE old.duration_days,
     dates |-> Dedup(old.dates \o new.dates),
     preferences |-> IF new.preferences # <<>>
                     THEN Dedup(old.preferences \o new.preferences) ELSE old.preferences,
     budget |-> IF new.budget # "" THEN new.budget ELSE old.budget]

MergeEntities(old, new) ==
    [cities |-> IF new.cities # <<>> THEN new.cities ELSE old.cities,
     duration_days |-> IF new.duration_days # 0 THEN new.duration_days ELSE old.duration_days,
     dates |-> IF new.dates # <<>> THEN new.dates ELSE old.dates,
     preferences |-> IF new.preferences # <<>>
                     THEN Dedup(old.preferences \o new.preferences) ELSE old.preferences,
     budget |-> IF new.budget # "" THEN new.budget ELSE old.budget]

\* inc in place or place in inc
FuzzyMatch(place, inc) == Contains(place, inc) \/ Contains(inc, place)

MergedIncluded(old_included, new_included) == Dedup(old_included \o new_included)

\* Variant: the exclusion list is accumulated without the inclusion filter.
MergedExcluded_unfiltered(old_excluded, new_excluded, merged_included) ==
    Dedup(old_excluded \o new_excluded)

MergedExcluded(old_excluded, new_excluded, merged_included) ==
    LET should_exclude(place) ==
            ~(\E i \in 1..Len(merged_included) : FuzzyMatch(place, merged_included[i]))
    IN  SelectSeq(Dedup(old_excluded \o new_excluded), should_exclude)

\* intent: the UserIntent of router.analyze(...), with its extracted_entities.
node_intent_recognition(st, intent) ==
    LET new_entities == NewEntities(st, intent.extracted_entities)
        merged_included == MergedIncluded(st.included_places, new_entities.included_places)
    IN  [intent |-> [present |-> TRUE, intent_type |-> intent.intent_type,
                     confidence |-> intent.confidence,
                     extracted_entities |-> intent.extracted_entities],
         entities |-> MergeEntities(st.entities, new_entities),
         excluded_places |->
             MergedExcluded(st.excluded_places, new_entities.excluded_places, merged_included),
         included_places |-> merged_included,
         current_node |-> "intent_recognition"]

IntentTypeOf(st) == IF st.intent.present THEN st.intent.intent_type ELSE "unknown"

\* user_input + "\n" + rewritten_query, lower-cased
GateText(st) == Lower(st.user_input \o <<"\n">> \o st.rewritten_query)

\* state.trip_plan and hit_plan and (hit_outfit or "建议" in text)
IsFollowUp(st) ==
    /\ st.trip_plan.present
    /\ AnyIn(PlanKws, GateText(st))
    /\ (AnyIn(OutfitKws, GateText(st)) \/ Contains(GateText(st), KwAdvice))

Max(a, b) == IF a > b THEN a ELSE b

\* Variant: the follow-up correction leaves state.intent as the router set it.
GateIntent_keep(st) == st.intent

\* The follow-up correction of the gate: state.intent is rewritten in place
\* (intent_type and confidence), so the later stages see the rewritten intent.
GateIntent(st) ==
    IF IsFollowUp(st) /\ st.intent.present
    THEN [st.intent EXCEPT !.intent_type = "clothing_advice",
                           !.confidence = Max(st.intent.confidence, 9)]
    ELSE st.intent

node_clarify_gate(st) ==
    LET intent_type == IntentTypeOf(st)
        followed == IF IsFollowUp(st) THEN "clothing_advice" ELSE intent_type
        wants_activity_based_outfit == AnyIn(ActivityOutfitKws, GateText(st))
    IN  IF intent_type = "general_qa"
        THEN [clarify_only |-> FALSE, current_node |-> "clarify_gate"]
        ELSE IF intent_type \in {"general_chat", "unknown"}
        THEN [clarify_only |-> FALSE, current_node |-> "clarify_gate"]
        ELSE IF st.entities.cities = <<>> /\ intent_type \in {"trip_planning", "clothing_advice"}
        THEN [final_response |-> AskCityText, clarify_only |-> TRUE,
              current_node |-> "clarify_gate"]
        ELSE IF /\ followed = "clothing_advice"
                /\ wants_activity_based_outfit
                /\ st.entities.preferences = <<>>
        THEN [final_response |-> AskActivityText, clarify_only |-> TRUE,
              intent |-> GateIntent(st), current_node |-> "clarify_gate"]
        ELSE [clarify_only |-> FALSE, intent |-> GateIntent(st),
              current_node |-> "clarify_gate"]

\* Variant: the gate's flag is not consulted and the turn always continues.
route_after_clarify_continue(st) == "continue"

\* src/graph/edges.py
route_after_clarify(st) == IF st.clarify_only THEN "ask" ELSE "continue"

\* Variant: the general_qa case is missing, so that intent falls to "general".
route_by_intent_noqa(st) ==
    IF ~st.intent.present THEN "general"
    ELSE IF st.intent.intent_type = "clothing_advice" THEN "clothing"
    ELSE IF st.intent.intent_type = "trip_planning" THEN "planning"
    ELSE "general"

route_by_intent(st) ==
    IF ~st.intent.present THEN "general"
    ELSE IF st.intent.intent_type = "clothing_advice" THEN "clothing"
    ELSE IF st.intent.intent_type = "trip_planning" THEN "planning"
    ELSE IF st.intent.intent_type = "general_qa" THEN "general_qa"
    ELSE "general"

should_replan_always(st) == "replan"

should_replan(st) == IF st.needs_replan THEN "replan" ELSE "continue"

\* user_memory.search_relevant / get_user_profile: mem is what the store returns.
node_load_memory(st, mem) == [user_profile |-> mem, current_node |-> "load_memory"]

\* int(entities.get("duration_days") or 1)
DurationOrOne(st) == IF st.entities.duration_days = 0 THEN 1 ELSE st.entities.duration_days

\* Variant: the current snapshot is fetched whatever the intent and duration.
WeatherEntry_single(st, city, w) ==
    [city |-> city, multi |-> FALSE, recs |-> <<WeatherInfo(w.weather)>>]

\* One entry of weather_data: a forecast list (multi) or a single record.
\* w: what the provider holds for the city (current condition and daily casts).
WeatherEntry(st, city, w) ==
    IF IntentTypeOf(st) = "clothing_advice" /\ DurationOrOne(st) > 1
    THEN [city |-> city, multi |-> TRUE,
          recs |-> [i \in 1..Len(Take(w.casts, DurationOrOne(st))) |-> WeatherInfo(w.casts[i])]]
    ELSE [city |-> city, multi |-> FALSE, recs |-> <<WeatherInfo(w.weather)>>]

\* The cities the weather is fetched for: the known ones, else the fallback city.
WeatherCities(st) ==
    IF st.entities.cities = <<>> THEN <<FallbackCity>> ELSE Dedup(st.entities.cities)

\* wx: the provider's data, a function of the city.
node_fetch_weather(st, wx) ==
    [weather_data |-> [i \in 1..Len(WeatherCities(st)) |->
                          WeatherEntry(st, WeatherCities(st)[i], wx[WeatherCities(st)[i]])],
     current_node |-> "fetch_weather"]

node_clothing_advice(st) ==
    [clothing_advice |-> ClothingText, final_response |-> ClothingText,
     current_node |-> "clothing_advice"]

\* TripPlanner.plan: the weather attached to day idx (0-based) of city.
DayWeather_none(weather_data, city, idx) == NoWeather

DayWeather(weather_data, city, idx) ==
    IF \E k \in 1..Len(weather_data) : weather_data[k].city = city
    THEN LET e == weather_data[CHOOSE k \in 1..Len(weather_data) : weather_data[k].city = city]
         IN  IF e.multi
             THEN IF e.recs # <<>>
                  THEN e.recs[IF idx < Len(e.recs) - 1 THEN idx + 1 ELSE Len(e.recs)]
                  ELSE NoWeather
             ELSE e.recs[1]
    ELSE NoWeather

\* entities.get('duration_days', 2): the key is absent until a turn supplies a
\* duration (the merge never stores an empty one).
PlannerDefaultDays == 2

\* TripPlanner.plan, the "dates" handed to the generation call when no dates are
\* known: f"{entities.get('duration_days', 2)}天".
PlannerDurationDays(entities) ==
    IF entities.duration_days = 0 THEN PlannerDefaultDays ELSE entities.duration_days

\* node_trip_planning: the keyword classes of the adjustment hint, in the order
\* of the if/elif chain.
HintClasses ==
    << [hint |-> "budget_up",
        kws |-> {<<"yusuan", "gao">>, <<"yusuan", "chongzu">>, <<"guidian">>,
                 <<"geng", "hao">>, <<"gaoduan">>, <<"haohua">>}],
       [hint |-> "budget_down",
        kws |-> {<<"yusuan", "di">>, <<"yusuan", "bugou">>, <<"pianyi">>,
                 <<"shengqian">>, <<"jingji">>, <<"shihui">>}],
       [hint |-> "livelier",
        kws |-> {<<"renao">>, <<"ren", "duo">>, <<"fanhua">>, <<"shangye">>}],
       [hint |-> "quieter",
        kws |-> {<<"anjing">>, <<"qingjing">>, <<"ren", "shao">>, <<"xiaozhong">>}],
       [hint |-> "more_fun",
        kws |-> {<<"hao", "wan">>, <<"youqu">>, <<"ciji">>, <<"tese">>}] >>

\* Variant: the hint is chosen whether or not a plan exists.
adjustment_hint_noplan(st) ==
    LET low == Lower(st.user_input)
    IN  IF AnyIn(HintClasses[1].kws, low) THEN HintClasses[1].hint
        ELSE IF AnyIn(HintClasses[2].kws, low) THEN HintClasses[2].hint
        ELSE IF AnyIn(HintClasses[3].kws, low) THEN HintClasses[3].hint
        ELSE IF AnyIn(HintClasses[4].kws, low) THEN HintClasses[4].hint
        ELSE IF AnyIn(HintClasses[5].kws, low) THEN HintClasses[5].hint
        ELSE ""

\* node_trip_planning: adjustment_hint, "" unless a plan exists already.
adjustment_hint(st) ==
    LET low == Lower(st.user_input)
    IN  IF ~st.trip_plan.present THEN ""
        ELSE IF AnyIn(HintClasses[1].kws, low) THEN HintClasses[1].hint
        ELSE IF AnyIn(HintClasses[2].kws, low) THEN HintClasses[2].hint
        ELSE IF AnyIn(HintClasses[3].kws, low) THEN HintClasses[3].hint
        ELSE IF AnyIn(HintClasses[4].kws, low) THEN HintClasses[4].hint
        ELSE IF AnyIn(HintClasses[5].kws, low) THEN HintClasses[5].hint
        ELSE ""

\* out: the PlannerOutput of the generation call, a list of [city, activities].
plan(st, out) ==
    [present |-> TRUE,
     days |-> [i \in 1..Len(out) |->
                  TripDay(out[i].city, out[i].activities,
                          DayWeather(st.weather_data, out[i].city, i - 1))]]

IsRainy(day) == day.weather.present /\ Contains(day.weather.weather, KwRain)
IsStormy(day) ==
    day.weather.present
    /\ (Contains(day.weather.weather, KwStorm) \/ Contains(day.weather.weather, KwSnow))

\* Variant: the rain test comes first and shadows the storm test ("暴雨" holds "雨").
RiskLevel_rainfirst(day) ==
    IF IsRainy(day) THEN "medium"
    ELSE IF IsStormy(day) THEN "high"
    ELSE day.risk_level

\* The risk tier node_trip_planning leaves on a day.
RiskLevel(day) ==
    IF IsStormy(day) THEN "high"
    ELSE IF IsRainy(day) THEN "medium"
    ELSE day.risk_level

NeedsReplan(days) == \E i \in 1..Len(days) : IsRainy(days[i]) \/ IsStormy(days[i])

\* Variant: the generated days are appended to the days of the earlier plan.
node_trip_planning_extend(st, out) ==
    LET p == plan(st, out)
        days == [i \in 1..Len(p.days) |-> [p.days[i] EXCEPT !.risk_level = RiskLevel(p.days[i])]]
    IN  [trip_plan |-> [p EXCEPT !.days = st.trip_plan.days \o days],
         needs_replan |-> NeedsReplan(p.days),
         current_node |-> "trip_planning"]

node_trip_planning(st, out) ==
    LET p == plan(st, out)
        days == [i \in 1..Len(p.days) |-> [p.days[i] EXCEPT !.risk_level = RiskLevel(p.days[i])]]
    IN  [trip_plan |-> [p EXCEPT !.days = days],
         needs_replan |-> NeedsReplan(p.days),
         current_node |-> "trip_planning"]

\* backups[i]: the text trip_planner.generate_backup returns for day i.
\* Variant: every day gets a backup text, whatever its risk tier.
node_risk_assessment_all(st, backups) ==
    IF ~st.needs_replan \/ ~st.trip_plan.present
    THEN [current_node |-> "risk_assessment"]
    ELSE [trip_plan |->
              [st.trip_plan EXCEPT !.days =
                  [i \in 1..Len(st.trip_plan.days) |->
                      [st.trip_plan.days[i] EXCEPT !.backup_plan = backups[i]]]],
          current_node |-> "risk_assessment"]

node_risk_assessment(st, backups) ==
    IF ~st.needs_replan \/ ~st.trip_plan.present
    THEN [current_node |-> "risk_assessment"]
    ELSE [trip_plan |->
              [st.trip_plan EXCEPT !.days =
                  [i \in 1..Len(st.trip_plan.days) |->
                      IF st.trip_plan.days[i].risk_level \in {"medium", "high"}
                      THEN [st.trip_plan.days[i] EXCEPT !.backup_plan = backups[i]]
                      ELSE st.trip_plan.days[i]]],
          current_node |-> "risk_assessment"]

\* answer: the text the chat model returns.
node_general_qa(st, answer) == [final_response |-> answer, current_node |-> "general_qa"]

\* Variant: duration questions are dropped whether or not a duration is known.
FilteredQuestions_dropduration(st) ==
    LET keep(q) ==
            /\ ~(st.entities.cities # <<>> /\ AnyIn(CityKws, Lower(q)))
            /\ ~AnyIn(DurationKws, Lower(q))
    IN  SelectSeq(st.clarifying_questions, keep)

\* The questions node_format_response keeps: not about a known city or a known duration.
FilteredQuestions(st) ==
    LET keep(q) ==
            /\ ~(st.entities.cities # <<>> /\ AnyIn(CityKws, Lower(q)))
            /\ ~(st.entities.duration_days # 0 /\ AnyIn(DurationKws, Lower(q)))
    IN  SelectSeq(st.clarifying_questions, keep)

\* Variant: the last branch returns no fallback text.
node_format_response_nofallback(st) ==
    IF st.final_response # NoText
    THEN [current_node |-> "format_response"]
    ELSE IF IntentTypeOf(st) = "clothing_advice"
    THEN [current_node |-> "format_response"]
    ELSE IF IntentTypeOf(st) = "trip_planning" /\ st.trip_plan.present
    THEN [final_response |->
              PlanText(IF FilteredQuestions(st) # <<>> /\ ~st.clarify_only
                       THEN Take(FilteredQuestions(st), 2) ELSE <<>>),
          current_node |-> "format_response"]
    ELSE [current_node |-> "format_response"]

\* Variant: the response is produced again even when one exists already.
node_format_response_rerender(st) ==
    IF IntentTypeOf(st) = "clothing_advice"
    THEN [current_node |-> "format_response"]
    ELSE IF IntentTypeOf(st) = "trip_planning" /\ st.trip_plan.present
    THEN [final_response |->
              PlanText(IF FilteredQuestions(st) # <<>> /\ ~st.clarify_only
                       THEN Take(FilteredQuestions(st), 2) ELSE <<>>),
          current_node |-> "format_response"]
    ELSE [final_response |-> FallbackText, current_node |-> "format_response"]

node_format_response(st) ==
    IF st.final_response # NoText
    THEN [current_node |-> "format_response"]
    ELSE IF IntentTypeOf(st) = "clothing_advice"
    THEN [current_node |-> "format_response"]
    ELSE IF IntentTypeOf(st) = "trip_planning" /\ st.trip_plan.present
    THEN [final_response |->
              PlanText(IF FilteredQuestions(st) # <<>> /\ ~st.clarify_only
                       THEN Take(FilteredQuestions(st), 2) ELSE <<>>),
          current_node |-> "format_response"]
    ELSE [final_response |-> FallbackText, current_node |-> "format_response"]

node_update_memory(st) == [current_node |-> "update_memory"]

\* Variant: "ask" -> format_response, as the docstring of route_after_clarify has it.
AfterClarify_format(route) == IF route = "ask" THEN "format_response" ELSE "load_memory"

\* The edges of the gate: "ask" -> update_memory, "continue" -> load_memory.
AfterClarify(route) == IF route = "ask" THEN "update_memory" ELSE "load_memory"

\* src/graph/builder.py: the stage that follows `node` once it has updated the state.
\* Variant: the graph ends after format_response, without update_memory.
build_graph_nomemory(node, st) ==
    CASE node = "rewrite" -> "intent_recognition"
      [] node = "intent_recognition" -> "clarify_gate"
      [] node = "clarify_gate" -> AfterClarify(route_after_clarify(st))
      [] node = "load_memory" -> "fetch_weather"
      [] node = "fetch_weather" ->
            CASE route_by_intent(st) = "clothing" -> "clothing_advice"
              [] route_by_intent(st) = "planning" -> "trip_planning"
              [] route_by_intent(st) = "general_qa" -> "general_qa"
              [] OTHER -> "format_response"
      [] node = "clothing_advice" -> "format_response"
      [] node = "general_qa" -> "format_response"
      [] node = "trip_planning" ->
            IF should_replan(st) = "replan" THEN "risk_assessment" ELSE "format_response"
      [] node = "risk_assessment" -> "format_response"
      [] node = "format_response" -> "END"
      [] node = "update_memory" -> "END"

build_graph(node, st) ==
    CASE node = "rewrite" -> "intent_recognition"
      [] node = "intent_recognition" -> "clarify_gate"
      [] node = "clarify_gate" ->
            AfterClarify(route_after_clarify(st))
      [] node = "load_memory" -> "fetch_weather"
      [] node = "fetch_weather" ->
            CASE route_by_intent(st) = "clothing" -> "clothing_advice"
              [] route_by_intent(st) = "planning" -> "trip_planning"
              [] route_by_intent(st) = "general_qa" -> "general_qa"
              [] OTHER -> "format_response"
      [] node = "clothing_advice" -> "format_response"
      [] node = "general_qa" -> "format_response"
      [] node = "trip_planning" ->
            IF should_replan(st) = "replan" THEN "risk_assessment" ELSE "format_response"
      [] node = "risk_assessment" -> "format_response"
      [] node = "format_response" -> "update_memory"
      [] node = "update_memory" -> "END"

----------------------------------------------------------------------------
(* Session continuity (src/core/assistant.py, src/core/session_store.py,   *)
(* src/server.py, src/main.py).                                            *)

CarriedFields == {"messages", "entities", "user_profile", "weather_data", "trip_plan",
                  "excluded_places", "included_places"}

\* Variant: the whole previous end-state is carried, not the whitelist.
carry_from_last_state_all(ls) ==
    IF ~ls.present THEN <<>>
    ELSE ls.state

\* _carry_from_last_state: the whitelisted fields of the previous end-state.
carry_from_last_state(ls) ==
    IF ~ls.present THEN <<>>
    ELSE [k \in CarriedFields |-> ls.state[k]]

\* _reset_fields
reset_fields ==
    [rewritten_query |-> <<>>, rewrite_slots |-> SlotsEmpty, need_clarification |-> FALSE,
     clarifying_questions |-> <<>>, clarify_only |-> FALSE, intent |-> NoIntent,
     clothing_advice |-> NoText, final_response |-> NoText, current_node |-> "",
     needs_replan |-> FALSE, error_message |-> ""]

\* GraphState(**carry, **reset, user_input=user_input)
InitialState(ls, user_input) ==
    Update(Update(Update(GraphState, carry_from_last_state(ls)), reset_fields),
           [user_input |-> user_input])

\* InMemorySessionStore: the record of the session; expired stands for
\* time.time() - rec.updated_at > ttl.
NoRecord == [present |-> FALSE, state |-> GraphState, expired |-> FALSE]

\* store.get(session_id): the state returned, and the table afterwards.
StoreGet(db) == IF db.present /\ ~db.expired THEN Some(db.state) ELSE None
StoreAfterGet(db) == IF db.present /\ db.expired THEN NoRecord ELSE db
\* store.set(session_id, state)
StoreSet(db, st) == [present |-> TRUE, state |-> st, expired |-> FALSE]

\* run_one_turn: the response string returned with the final state.
Response(final_state) ==
    IF final_state.final_response # NoText
    THEN [kind |-> "response", text |-> final_state.final_response]
    ELSE [kind |-> "apology", text |-> NoText]

\* What the caller gets when run_one_turn raises: HTTP 500 from the handler, the
\* exception text printed by the CLI.
OnException(fe) == [kind |-> "raw_error", text |-> NoText]

\* Variant: the handler stores the partial state of the aborted turn.
StoreOnException_persist(db, partial_state) ==
    [present |-> TRUE, state |-> partial_state, expired |-> FALSE]

\* chat(): store.set is the statement after run_one_turn, so it is not reached
\* when run_one_turn raises; nor is `last_state = final_state` in run_cli().
StoreOnException(db, partial_state) == db
LastStateOnException(ls, partial_state) == ls

NoReply == [kind |-> "none", text |-> NoText]

----------------------------------------------------------------------------
(* The environment: what the external services may return.                 *)

Scenarios == {"cities", "duration", "preferences", "places", "plan", "questions", "followup",
              "budget", "adjust"}

\* Both front ends are run on the smallest input class; the others go through HTTP.
Frontends == IF scenario = "cities" THEN {"http", "cli"} ELSE {"http"}

\* "followup": texts that refer to the earlier plan or ask for a matching outfit.
\* "adjust": texts that ask for a different plan.
UserInputs ==
    CASE scenario = "followup" -> {TextPlain, TextFollowUp, TextOutfitSet, TextPlanOutfitSet}
      [] scenario = "adjust" -> {TextPlain, TextMoreFun, TextQuietCheap, TextInteresting}
      [] OTHER -> {TextPlain}

QuestionKinds == {QHowManyDays, QCity, QBudget}

RewriteSlots ==
    CASE scenario = "cities" -> {[SlotsEmpty EXCEPT !.cities = c] : c \in {<<>>, <<CityB>>}}
      [] scenario \in {"duration", "questions"} ->
            {[SlotsEmpty EXCEPT !.duration_days = d] : d \in {0, 2}}
      [] scenario = "preferences" ->
            {[SlotsEmpty EXCEPT !.preferences = p] : p \in {<<>>, <<"food">>}}
      [] scenario = "budget" ->
            {SlotsEmpty, [SlotsEmpty EXCEPT !.budget_text = "2000"],
             [SlotsEmpty EXCEPT !.budget_text = "2000", !.dates_text = "wuyi"]}
      [] OTHER -> {SlotsEmpty}

RewriteResults ==
    {[rewritten_query |-> <<"gaixie">>, slots |-> sl, need_clarification |-> qs # <<>>,
      clarifying_questions |-> qs] :
        sl \in RewriteSlots,
        qs \in CASE scenario = "questions" -> SeqsUpTo(QuestionKinds, MaxQs)
                  [] scenario = "budget" -> {<<>>, <<QBudget>>}
                  [] OTHER -> {<<>>}}

\* Places the router may report as excluded ("不去X") and included ("想去X").
NewExcluded == {<<>>, <<PlaceXihu>>, <<PlaceHzXihu>>, <<PlaceLingyin>>,
                <<PlaceLingyin, PlaceXihu>>}
NewIncluded == {<<>>, <<PlaceXihu>>, <<PlaceHzXihu>>}

Extractions ==
    CASE scenario = "cities" ->
            {[ExtractedEmpty EXCEPT !.cities = c] : c \in {<<>>, <<CityA>>}}
      [] scenario = "duration" ->
            {[ExtractedEmpty EXCEPT !.cities = c, !.duration_days = d] :
                c \in {<<>>, <<CityA>>}, d \in {0, 3}}
      [] scenario = "preferences" ->
            {[ExtractedEmpty EXCEPT !.cities = c, !.preferences = p] :
                c \in {<<>>, <<CityA>>},
                p \in {<<>>, <<"quiet">>, <<"food">>, <<"food", "quiet">>, <<"photo", "photo">>}}
      [] scenario = "places" ->
            {[ExtractedEmpty EXCEPT !.cities = c, !.excluded_places = e,
                                    !.included_places = i] :
                c \in {<<>>, <<CityA>>}, e \in NewExcluded, i \in NewIncluded}
      [] scenario = "questions" ->
            {[ExtractedEmpty EXCEPT !.cities = <<CityA>>]}
      [] scenario = "budget" ->
            {[ExtractedEmpty EXCEPT !.cities = <<CityA>>],
             [ExtractedEmpty EXCEPT !.cities = <<CityA>>, !.budget = "3000"],
             [ExtractedEmpty EXCEPT !.cities = <<CityA>>, !.dates = <<"d2", "d3">>]}
      [] OTHER -> {[ExtractedEmpty EXCEPT !.cities = <<CityA>>]}

RouterIntentTypes ==
    CASE scenario = "cities" -> IntentTypes
      [] scenario = "duration" -> {"trip_planning", "clothing_advice"}
      [] scenario = "followup" -> {"trip_planning", "clothing_advice", "general_qa"}
      [] OTHER -> {"trip_planning"}

RouterResults ==
    {[intent_type |-> t, confidence |-> 5, extracted_entities |-> ex] :
        t \in RouterIntentTypes, ex \in Extractions}

Conditions ==
    CASE scenario = "plan" -> {CondSunny, CondRain, CondStorm, CondSnow}
      [] scenario = "followup" -> {CondSunny, CondStorm}
      [] OTHER -> {CondSunny}

ProviderData == {[weather |-> c, casts |-> <<c, c, c>>] : c \in Conditions}

PlannerDays ==
    CASE scenario = "plan" ->
            {[city |-> c, activities |-> <<PlaceLingyin>>] : c \in {CityA, CityOther}}
      [] scenario = "places" ->
            {[city |-> CityA, activities |-> <<a>>] : a \in {PlaceXihu, PlaceLingyin}}
      [] OTHER -> {[city |-> CityA, activities |-> <<PlaceLingyin>>]}

PlannerOutputs ==
    IF scenario = "plan" THEN SeqsUpTo(PlannerDays, MaxDays)
    ELSE {<<d>> : d \in PlannerDays}

BackupTexts == {"", "indoor"}

Answers == {NoText, AnswerText}

Memories == IF scenario = "cities" THEN {"profile1", "profile2"} ELSE {"profile1"}

----------------------------------------------------------------------------
(* The session store as the request threads use it                         *)
(* (src/core/session_store.py).  chat() is a plain `def`, so requests run  *)
(* on the server's thread pool and their calls on the one store instance   *)
(* (src/server.py:20) interleave statement by statement.                   *)

Sessions == {"s1", "s2"}
Threads == {"t1", "t2"}

\* ttl_seconds of the store, in ticks.
Ttl == 2

\* The states a finished turn may store.
StoredStates == {GraphState, [GraphState EXCEPT !.current_node = "update_memory"]}

\* self._db.get(session_id) of a missing key.
NoSessionRecord == [present |-> FALSE, state |-> GraphState, updated_at |-> 0]

\* get, line 28: time.time() - rec.updated_at > self._ttl
InMemorySessionStore_expired(d, session_id, t) ==
    /\ d[session_id].present
    /\ t - d[session_id].updated_at > Ttl

\* get: the value returned (None for a missing or an expired record).
InMemorySessionStore_get(d, session_id, t) ==
    IF ~d[session_id].present THEN None
    ELSE IF InMemorySessionStore_expired(d, session_id, t) THEN None
    ELSE Some(d[session_id].state)

\* self._db.pop(session_id, None): by key, whatever record is there now.
InMemorySessionStore_pop(d, session_id) == [d EXCEPT ![session_id] = NoSessionRecord]

\* set: a new SessionRecord stamped with the current time.
InMemorySessionStore_set(d, session_id, st, t) ==
    [d EXCEPT ![session_id] = [present |-> TRUE, state |-> st, updated_at |-> t]]

\* reset
InMemorySessionStore_reset(d, session_id) == InMemorySessionStore_pop(d, session_id)

NoGot == [session_id |-> "", result |-> None]

StoreInit ==
    /\ now = 0
    /\ session_db = [s \in Sessions |-> NoSessionRecord]
    /\ written = [s \in Sessions |-> NoSessionRecord]
    /\ got = NoGot
    /\ popping = [t \in Threads |-> ""]

----------------------------------------------------------------------------
(* The long-term memory (src/memory/vector_store.py).  A text is the       *)
(* sequence of its characters; a document is its text and its type.        *)

\* str.strip()
RECURSIVE Strip(_)
Strip(text) ==
    IF text = <<>> THEN <<>>
    ELSE IF Head(text) = " " THEN Strip(Tail(text))
    ELSE IF text[Len(text)] = " " THEN Strip(SubSeq(text, 1, Len(text) - 1))
    ELSE text

Min(a, b) == IF a <= b THEN a ELSE b

\* Whether a[i..i+k-1] and b[j..j+k-1] are the same block.
SameBlock(a, i, b, j, k) ==
    /\ i + k - 1 <= Len(a)
    /\ j + k - 1 <= Len(b)
    /\ SubSeq(a, i, i + k - 1) = SubSeq(b, j, j + k - 1)

\* difflib.SequenceMatcher.find_longest_match (no junk): the longest common
\* block; of several, the one starting earliest in a, and of those the one
\* starting earliest in b.
find_longest_match(a, b) ==
    LET sizes == {k \in 1..Min(Len(a), Len(b)) :
                    \E i \in 1..Len(a), j \in 1..Len(b) : SameBlock(a, i, b, j, k)}
    IN  IF sizes = {} THEN [i |-> 1, j |-> 1, k |-> 0]
        ELSE LET k == CHOOSE x \in sizes : \A y \in sizes : y <= x
                 i == CHOOSE x \in 1..Len(a) :
                        /\ \E j \in 1..Len(b) : SameBlock(a, x, b, j, k)
                        /\ \A y \in 1..(x - 1) :
                              ~\E j \in 1..Len(b) : SameBlock(a, y, b, j, k)
                 j == CHOOSE x \in 1..Len(b) :
                        /\ SameBlock(a, i, b, x, k)
                        /\ \A y \in 1..(x - 1) : ~SameBlock(a, i, b, y, k)
             IN  [i |-> i, j |-> j, k |-> k]

\* get_matching_blocks: the block, then the blocks to its left and to its right;
\* the total size of the blocks.
RECURSIVE get_matching_blocks(_, _)
get_matching_blocks(a, b) ==
    LET m == find_longest_match(a, b)
    IN  IF m.k = 0 THEN 0
        ELSE m.k
             + get_matching_blocks(SubSeq(a, 1, m.i - 1), SubSeq(b, 1, m.j - 1))
             + get_matching_blocks(SubSeq(a, m.i + m.k, Len(a)),
                                   SubSeq(b, m.j + m.k, Len(b)))

\* SequenceMatcher.ratio(): 2.0 * matches / length, 1.0 for two empty texts.
ratio(a, b) ==
    IF Len(a) + Len(b) = 0 THEN [num |-> 1, den |-> 1]
    ELSE [num |-> 2 * get_matching_blocks(a, b), den |-> Len(a) + Len(b)]

\* _text_similarity(a, b)
text_similarity(a, b) == ratio(Lower(Strip(a)), Lower(Strip(b)))

\* similarity_threshold = 0.75
similarity_threshold == [num |-> 3, den |-> 4]

AtLeast(r, q) == r.num * q.den >= q.num * r.den

Preference(content) == [page_content |-> content, type |-> "preference"]

\* vectorstore.get(where={"type": "preference"})["documents"]
PreferenceDocuments(mem) == SelectSeq(mem, LAMBDA d : d.type = "preference")

\* add_preference
add_preference(mem, content) ==
    LET c == Strip(content)
        existing == PreferenceDocuments(mem)
    IN  IF c = <<>> THEN mem
        ELSE IF \E n \in 1..Len(existing) :
                    AtLeast(text_similarity(c, existing[n].page_content),
                            similarity_threshold)
             THEN mem
             ELSE Append(mem, Preference(c))

\* add_memory
add_memory(mem, content) == Append(mem, [page_content |-> content, type |-> "interaction"])

MemoryInit == memory = <<>>

----------------------------------------------------------------------------
(* The administrative wipe: /purge_all in chat() (src/server.py 68-98),    *)
(* /clear in run_cli() (src/main.py 130-154).  A text is the sequence of   *)
(* its words and blanks.                                                   *)

\* text.startswith(word)
StartsWith(text, word) == text # <<>> /\ text[1] = word

\* parts = text.split(maxsplit=1); parts[1].strip() if len(parts) == 2 else ""
SuppliedToken(text) ==
    LET t == Strip(text)
        blanks == {n \in 1..Len(t) : t[n] = " "}
    IN  IF blanks = {} THEN <<>>
        ELSE LET first == CHOOSE n \in blanks : \A m \in blanks : n <= m
             IN  Strip(SubSeq(t, first + 1, Len(t)))

\* Variant: the wipe is not refused when no token is configured.
purge_outcome_unguarded(fe, user_input, configured) ==
    LET text == Strip(user_input)
    IN  IF ~StartsWith(IF fe = "cli" THEN Lower(text) ELSE text,
                       IF fe = "cli" THEN "/clear" ELSE "/purge_all")
        THEN "turn"
        ELSE IF SuppliedToken(text) # configured THEN "wrong_token"
        ELSE "purged"

\* The interception in chat() and in run_cli(): what becomes of a message.
\* run_cli matches the command on the lower-cased text, chat() on the text as sent.
purge_outcome(fe, user_input, configured) ==
    LET text == Strip(user_input)
    IN  IF ~StartsWith(IF fe = "cli" THEN Lower(text) ELSE text,
                       IF fe = "cli" THEN "/clear" ELSE "/purge_all")
        THEN "turn"
        ELSE IF configured = <<>> THEN "not_configured"
        ELSE IF SuppliedToken(text) # configured THEN "wrong_token"
        ELSE "purged"

\* What the caller gets: HTTP 500 when chat() finds no token configured, the
\* refusal message otherwise; the confirmation after a wipe.
purge_reply(fe, outcome) ==
    [kind |-> CASE outcome = "purged" -> "purged"
                [] outcome = "not_configured" /\ fe = "http" -> "http_500"
                [] OTHER -> "rejected",
     text |-> NoText]

NoCommand == [token |-> <<>>, text |-> <<>>]

AdminInit ==
    /\ purge_token = <<>>
    /\ command = NoCommand

----------------------------------------------------------------------------
(* The weather tool (src/tools/weather.py).  A city name is the sequence   *)
(* of its parts, "shi" standing for a trailing "市".  The provider's answer *)
(* is what client.get and resp.json() produce: the request fails, the body *)
(* is not JSON, or a JSON document.                                        *)

CITY_CODES == {<<"hangzhou">>, <<"beijing">>}

\* city.rstrip("市")
RECURSIVE RStripShi(_)
RStripShi(city) ==
    IF city # <<>> /\ city[Len(city)] = "shi"
    THEN RStripShi(SubSeq(city, 1, Len(city) - 1))
    ELSE city

\* _get_city_code: whether a code is found.
get_city_code(city) == RStripShi(city) \in CITY_CODES

\* float(x) succeeds.
IsNumber(x) == x \in {"10", "12"}

\* The placeholder texts: "未知", "查询失败", "解析失败", "无数据".
Placeholders == {"unknown", "query_failed", "parse_failed", "no_data"}

Raised == [kind |-> "raised"]
Info(city, weather) == [kind |-> "info", city |-> city, weather |-> weather]
InfoList(items) == [kind |-> "list", items |-> items]

\* _mock_weather, _mock_forecast
mock_weather(city) == Info(RStripShi(city), "qing")
mock_forecast(city, days) == InfoList([n \in 1..Max(1, days) |-> mock_weather(city)])

\* get_weather(city, extensions): the request and resp.json() are outside any
\* try; so is the "base" branch; the "all" branch is inside one.
get_weather(city, extensions, api_key, r) ==
    IF api_key = "" THEN mock_weather(city)
    ELSE IF ~get_city_code(city) THEN Info(city, "unknown")
    ELSE IF r.kind \in {"request_failed", "not_json"} THEN Raised
    ELSE IF r.status # "1" THEN Info(city, "query_failed")
    ELSE IF extensions = "base"
         THEN IF r.lives = <<>> THEN Raised
              ELSE IF r.lives[1].temperature # "" /\ ~IsNumber(r.lives[1].temperature)
                   THEN Raised
                   ELSE Info(city, r.lives[1].weather)
         ELSE IF \/ r.forecasts = <<>>
                 \/ r.forecasts[1].casts = <<>>
                 \/ ~IsNumber(r.forecasts[1].casts[1].daytemp)
              THEN Info(city, "parse_failed")
              ELSE Info(city, r.forecasts[1].casts[1].dayweather)

\* get_forecast(city, days)
get_forecast(city, days, api_key, r) ==
    LET n == Max(1, IF days = 0 THEN 1 ELSE days)
    IN  IF api_key = "" THEN mock_forecast(city, n)
        ELSE IF ~get_city_code(city) THEN InfoList(<<Info(city, "unknown")>>)
        ELSE IF r.kind \in {"request_failed", "not_json"} THEN Raised
        ELSE IF r.status # "1" THEN InfoList(<<Info(city, "query_failed")>>)
        ELSE IF r.forecasts = <<>> THEN InfoList(<<Info(city, "no_data")>>)
        ELSE LET casts == Take(r.forecasts[1].casts, n)
             IN  InfoList([k \in 1..Len(casts) |-> Info(city, casts[k].dayweather)])

NoCall == [mode |-> "none"]

WeatherInit ==
    /\ weather_call = NoCall
    /\ weather_result = [kind |-> "none"]

----------------------------------------------------------------------------
(* Concurrent turns and object identity.  The final state of a turn is a   *)
(* dict of references; _carry_from_last_state copies references, not       *)
(* objects, so the TripPlan of the stored state and of a turn seeded from  *)
(* it are one object.  The stages write some objects in place.             *)

ObjIds == 1..MaxObjs
Null == 0

Free == [kind |-> "free"]

\* The reference a new object gets: an identity not in use.
NewRef(h) == CHOOSE o \in ObjIds : h[o] = Free /\ \A p \in ObjIds : h[p] = Free => o <= p

\* run_one_turn: intent=None from _reset_fields, trip_plan from the carry.
SeedRefs(last) ==
    [intent |-> Null, trip_plan |-> IF last.present THEN last.trip_plan ELSE Null]

\* node_intent_recognition: the router's result is a new UserIntent.
RoutedIntent(intent_type) == [kind |-> "intent", intent_type |-> intent_type]

\* node_clarify_gate, lines 266-270: state.intent.intent_type is assigned on the
\* object the state refers to.
GateWrite(h, refs, follow_up) ==
    IF refs.trip_plan # Null /\ follow_up /\ refs.intent # Null
    THEN [h EXCEPT ![refs.intent].intent_type = "clothing_advice"]
    ELSE h

\* Variant: the planner edits the plan it was given as previous_plan, when there
\* is one.
PlannedObject_reused(h, refs) ==
    IF refs.trip_plan # Null THEN refs.trip_plan ELSE NewRef(h)

\* trip_planner.plan: TripPlan(...) built from new TripDay objects.
PlannedObject(h, refs) == NewRef(h)

\* node_trip_planning, lines 564-570: day.risk_level is assigned on the plan.
PlanningWrite(h, plan_ref, risk_level) ==
    [h EXCEPT ![plan_ref] = [kind |-> "plan", risk_level |-> risk_level, backup_plan |-> ""]]

\* node_risk_assessment, lines 588-591: day.backup_plan is assigned on state.trip_plan.
RiskWrite(h, refs, backup) ==
    IF h[refs.trip_plan].risk_level \in {"medium", "high"}
    THEN [h EXCEPT ![refs.trip_plan].backup_plan = backup]
    ELSE h

NothingHeld == [present |-> FALSE, intent |-> Null, trip_plan |-> Null]
\* last_state: what store.get returned to the handler when the turn began.
IdleTurn == [pc |-> "idle", session_id |-> "", follow_up |-> FALSE,
             intent |-> Null, trip_plan |-> Null, last_state |-> NothingHeld]

AliasInit ==
    /\ heap = [o \in ObjIds |-> Free]
    /\ turns = [t \in Threads |-> IdleTurn]
    /\ held = [s \in Sessions |-> NothingHeld]

----------------------------------------------------------------------------
(* The state machine. *)

Init ==
    /\ scenario \in Scenarios
    /\ frontend \in Frontends
    /\ pc = "idle"
    /\ state = GraphState
    /\ last_state = None
    /\ store = NoRecord
    /\ reply = NoReply
    /\ trace = <<>>
    /\ StoreInit
    /\ MemoryInit
    /\ AdminInit
    /\ WeatherInit
    /\ AliasInit

\* A stage has run: its update is merged and the graph moves on.
Step(node, upd) ==
    /\ state' = Update(state, upd)
    /\ trace' = Append(trace, node)
    /\ pc' = build_graph(node, Update(state, upd))
    /\ UNCHANGED <<scenario, frontend, last_state, store, reply>>
    /\ UNCHANGED aux_vars

\* chat(): last_state = store.get(session_id); run_cli(): last_state of the loop.
\* run_one_turn then builds the initial state and enters the graph.
StartTurn ==
    /\ pc = "idle"
    /\ \E user_input \in UserInputs :
        LET ls == IF frontend = "http" THEN StoreGet(store) ELSE last_state
        IN  /\ last_state' = ls
            /\ state' = InitialState(ls, user_input)
    /\ store' = IF frontend = "http" THEN StoreAfterGet(store) ELSE store
    /\ pc' = "rewrite"
    /\ trace' = <<>>
    /\ reply' = NoReply
    /\ UNCHANGED <<scenario, frontend>>
    /\ UNCHANGED aux_vars

Rewrite == pc = "rewrite" /\ \E r \in RewriteResults : Step("rewrite", node_rewrite(state, r))

IntentRecognition ==
    /\ pc = "intent_recognition"
    /\ \E intent \in RouterResults :
          Step("intent_recognition", node_intent_recognition(state, intent))

ClarifyGate == pc = "clarify_gate" /\ Step("clarify_gate", node_clarify_gate(state))

LoadMemory ==
    /\ pc = "load_memory"
    /\ \E mem \in Memories : Step("load_memory", node_load_memory(state, mem))

FetchWeather ==
    /\ pc = "fetch_weather"
    /\ \E w \in ProviderData :
          Step("fetch_weather",
               node_fetch_weather(state, [c \in {CityA, CityB, CityOther, FallbackCity} |-> w]))

ClothingAdvice == pc = "clothing_advice" /\ Step("clothing_advice", node_clothing_advice(state))

TripPlanning ==
    /\ pc = "trip_planning"
    /\ \E out \in PlannerOutputs : Step("trip_planning", node_trip_planning(state, out))

RiskAssessment ==
    /\ pc = "risk_assessment"
    /\ \E backups \in [1..Len(state.trip_plan.days) -> BackupTexts] :
          Step("risk_assessment", node_risk_assessment(state, backups))

GeneralQa ==
    /\ pc = "general_qa"
    /\ \E answer \in Answers : Step("general_qa", node_general_qa(state, answer))

FormatResponse == pc = "format_response" /\ Step("format_response", node_format_response(state))

UpdateMemory == pc = "update_memory" /\ Step("update_memory", node_update_memory(state))

\* The graph has ended: run_one_turn returns (final_state, response); chat() stores
\* the final state, run_cli() assigns it to last_state.
Return ==
    /\ pc = "END"
    /\ reply' = Response(state)
    /\ store' = IF frontend = "http" THEN StoreSet(store, state) ELSE store
    /\ last_state' = IF frontend = "cli" THEN Some(state) ELSE None
    /\ state' = GraphState
    /\ trace' = <<>>
    /\ pc' = "idle"
    /\ UNCHANGED <<scenario, frontend>>
    /\ UNCHANGED aux_vars

\* The stages that call an external service and so may raise.
RaisingStages == {"rewrite", "intent_recognition", "load_memory", "fetch_weather",
                  "clothing_advice", "trip_planning", "risk_assessment", "general_qa",
                  "update_memory"}

\* A stage raises: the exception leaves run_one_turn and the handler.
StageRaises ==
    /\ pc \in RaisingStages
    /\ reply' = OnException(frontend)
    /\ store' = IF frontend = "http"
                THEN StoreOnException(store, state) ELSE store
    /\ last_state' = IF frontend = "cli" THEN LastStateOnException(last_state, state)
                     ELSE None
    /\ state' = GraphState
    /\ trace' = <<>>
    /\ pc' = "idle"
    /\ UNCHANGED <<scenario, frontend>>
    /\ UNCHANGED aux_vars

\* Time passes beyond the time-to-live of the stored record (observed only by get).
Expire ==
    /\ pc = "idle"
    /\ store.present /\ ~store.expired
    /\ store' = [store EXCEPT !.expired = TRUE]
    /\ UNCHANGED <<scenario, frontend, pc, state, last_state, reply, trace>>
    /\ UNCHANGED aux_vars

Next ==
    \/ StartTurn
    \/ Rewrite
    \/ IntentRecognition
    \/ ClarifyGate
    \/ LoadMemory
    \/ FetchWeather
    \/ ClothingAdvice
    \/ TripPlanning
    \/ RiskAssessment
    \/ GeneralQa
    \/ FormatResponse
    \/ UpdateMemory
    \/ Return
    \/ StageRaises
    \/ Expire

Spec == Init /\ [][Next]_vars

----------------------------------------------------------------------------
(* Turns in which every stage call returns: graph.stream runs a stage as   *)
(* soon as the one before it has returned, so a step of the turn is taken  *)
(* whenever one is possible.                                               *)

TurnSpecInit == Init /\ scenario = "followup"

TurnNext ==
    \/ StartTurn
    \/ Rewrite
    \/ IntentRecognition
    \/ ClarifyGate
    \/ LoadMemory
    \/ FetchWeather
    \/ ClothingAdvice
    \/ TripPlanning
    \/ RiskAssessment
    \/ GeneralQa
    \/ FormatResponse
    \/ UpdateMemory
    \/ Return
    \/ Expire

TurnSpec == TurnSpecInit /\ [][TurnNext]_vars /\ WF_vars(TurnNext)

----------------------------------------------------------------------------
(* The session store on its own: threads get, set and reset the records of *)
(* the sessions while time passes.  No turn runs.                          *)

TurnIdle ==
    /\ scenario = "plan"
    /\ frontend = "http"
    /\ pc = "idle"
    /\ state = GraphState
    /\ last_state = None
    /\ store = NoRecord
    /\ reply = NoReply
    /\ trace = <<>>

StoreSpecInit ==
    TurnIdle /\ StoreInit /\ MemoryInit /\ AdminInit /\ WeatherInit /\ AliasInit

Tick ==
    /\ now < MaxTime
    /\ now' = now + 1
    /\ UNCHANGED <<session_db, written, got, popping, store_frame>>

\* get, lines 24-28 and 33: the record is read and its age is checked.  A missing
\* or a live record ends the call; an expired one is popped by the next statement.
GetCheck(t, session_id) ==
    /\ popping[t] = ""
    /\ IF InMemorySessionStore_expired(session_db, session_id, now)
       THEN /\ popping' = [popping EXCEPT ![t] = session_id]
            /\ UNCHANGED got
       ELSE /\ got' = [session_id |-> session_id,
                       result |-> InMemorySessionStore_get(session_db, session_id, now)]
            /\ UNCHANGED popping
    /\ UNCHANGED <<now, session_db, written, store_frame>>

\* get, lines 30-31: the pop, and None is returned.
GetPop(t) ==
    /\ popping[t] # ""
    /\ session_db' = InMemorySessionStore_pop(session_db, popping[t])
    /\ got' = [session_id |-> popping[t], result |-> None]
    /\ popping' = [popping EXCEPT ![t] = ""]
    /\ UNCHANGED <<now, written, store_frame>>

StoreSetCall(t, session_id, st) ==
    /\ popping[t] = ""
    /\ session_db' = InMemorySessionStore_set(session_db, session_id, st, now)
    /\ written' = InMemorySessionStore_set(written, session_id, st, now)
    /\ got' = NoGot
    /\ UNCHANGED <<now, popping, store_frame>>

StoreResetCall(t, session_id) ==
    /\ popping[t] = ""
    /\ session_db' = InMemorySessionStore_reset(session_db, session_id)
    /\ written' = [written EXCEPT ![session_id] = NoSessionRecord]
    /\ got' = NoGot
    /\ UNCHANGED <<now, popping, store_frame>>

StoreNext ==
    \/ Tick
    \/ \E t \in Threads, session_id \in Sessions : GetCheck(t, session_id)
    \/ \E t \in Threads : GetPop(t)
    \/ \E t \in Threads, session_id \in Sessions, st \in StoredStates :
            StoreSetCall(t, session_id, st)
    \/ \E t \in Threads, session_id \in Sessions : StoreResetCall(t, session_id)

StoreSpec == StoreSpecInit /\ [][StoreNext]_vars

----------------------------------------------------------------------------
(* The long-term memory on its own: preferences and interaction notes are  *)
(* added one call after the other, as node_update_memory does.             *)

Chars == {"a", "b"}

\* The texts handed to add_preference: every text over Chars, and some with
\* surrounding blanks or a capital.
PreferenceTexts ==
    SeqsUpTo(Chars, MaxLen)
        \cup {<<" ">>, <<" ", "a", "b">>, <<"a", "b", " ">>, <<"A", "b">>}

InteractionTexts == {<<"a", "a", "b", "a">>}

MemSpecInit ==
    TurnIdle /\ StoreInit /\ MemoryInit /\ AdminInit /\ WeatherInit /\ AliasInit

AddPreference ==
    /\ Len(memory) < MaxDocs
    /\ \E content \in PreferenceTexts : memory' = add_preference(memory, content)
    /\ UNCHANGED memory_frame

AddMemory ==
    /\ Len(memory) < MaxDocs
    /\ \E content \in InteractionTexts : memory' = add_memory(memory, content)
    /\ UNCHANGED memory_frame

MemNext == AddPreference \/ AddMemory

MemSpec == MemSpecInit /\ [][MemNext]_vars

----------------------------------------------------------------------------
(* The administrative wipe between turns: sessions end turns, preferences  *)
(* are remembered, and wipe commands arrive with or without a token.       *)

ConfiguredTokens == {<<>>, <<"secret">>}
TypedTokens == {<<>>, <<"secret">>, <<"wrong">>, <<"secret", " ", "x">>}

\* The command word as the user may type it for the front end.
CommandWords(fe) == IF fe = "cli" THEN {"/clear", "/CLEAR"} ELSE {"/purge_all"}

\* The messages that carry the token: with or without blanks around it.
CommandTexts(fe, token) ==
    IF token = <<>>
    THEN {<<w>> : w \in CommandWords(fe)} \cup {<<w, " ">> : w \in CommandWords(fe)}
    ELSE {<<w, " ">> \o token : w \in CommandWords(fe)}
            \cup {<<" ", w, " ", " ">> \o token \o <<" ">> : w \in CommandWords(fe)}

RememberedTexts == {<<"a">>, <<"b">>}

AdminSpecInit ==
    /\ scenario = "cities"
    /\ frontend \in Frontends
    /\ pc = "idle"
    /\ state = GraphState
    /\ last_state = None
    /\ store = NoRecord
    /\ reply = NoReply
    /\ trace = <<>>
    /\ StoreInit
    /\ MemoryInit
    /\ purge_token \in ConfiguredTokens
    /\ command = NoCommand
    /\ WeatherInit
    /\ AliasInit

\* A turn of the session has ended: chat() stores the final state, run_cli()
\* keeps it in last_state.
SessionStored ==
    /\ pc = "idle"
    /\ \E st \in StoredStates :
          /\ store' = IF frontend = "http" THEN StoreSet(store, st) ELSE store
          /\ last_state' = IF frontend = "cli" THEN Some(st) ELSE last_state
    /\ UNCHANGED <<scenario, frontend, pc, state, reply, trace>>
    /\ UNCHANGED <<store_vars, memory_vars, admin_vars, weather_vars, alias_vars>>

\* node_update_memory has remembered a preference.
Remember ==
    /\ Len(memory) < MaxDocs
    /\ \E content \in RememberedTexts : memory' = add_preference(memory, content)
    /\ UNCHANGED <<turn_vars, store_vars, admin_vars, weather_vars, alias_vars>>

\* A wipe command arrives.  Only an accepted one clears the memory
\* (clear_all_persisted_data, user_memory.reset) and the session
\* (store.reset / last_state = None); in every case the handler returns
\* before run_one_turn.
AdminCommand ==
    /\ pc = "idle"
    /\ \E token \in TypedTokens : \E text \in CommandTexts(frontend, token) :
          LET outcome == purge_outcome(frontend, text, purge_token)
          IN  /\ outcome # "turn"
              /\ command' = [token |-> token, text |-> text]
              /\ reply' = purge_reply(frontend, outcome)
              /\ memory' = IF outcome = "purged" THEN <<>> ELSE memory
              /\ store' = IF outcome = "purged" /\ frontend = "http"
                          THEN NoRecord ELSE store
              /\ last_state' = IF outcome = "purged" /\ frontend = "cli"
                               THEN None ELSE last_state
    /\ UNCHANGED <<scenario, frontend, pc, state, trace, purge_token>>
    /\ UNCHANGED <<store_vars, weather_vars, alias_vars>>

\* POST /api/clear_profile: the memory is cleared (clear_all_persisted_data,
\* user_memory.reset); the request carries no token and the session is kept.
ClearProfile ==
    /\ pc = "idle"
    /\ frontend = "http"
    /\ memory' = <<>>
    /\ reply' = [kind |-> "profile_cleared", text |-> NoText]
    /\ UNCHANGED <<scenario, pc, frontend, state, last_state, store, trace>>
    /\ UNCHANGED <<store_vars, admin_vars, weather_vars, alias_vars>>

AdminNext == SessionStored \/ Remember \/ AdminCommand \/ ClearProfile

AdminSpec == AdminSpecInit /\ [][AdminNext]_vars

----------------------------------------------------------------------------
(* The weather tool on its own: node_fetch_weather calls it for a city,    *)
(* and the provider answers as it may.                                     *)

WeatherCityNames == {<<"hangzhou">>, <<"hangzhou", "shi">>, <<"mars">>}
ApiKeys == {"", "key"}
Lives == {[temperature |-> t, weather |-> "qing"] : t \in {"10", "", "abc"}}
Casts == {[daytemp |-> t, dayweather |-> "qing"] : t \in {"10", "abc"}}

ProviderAnswers ==
    {[kind |-> "request_failed"], [kind |-> "not_json"]}
        \cup {[kind |-> "json", status |-> st, lives |-> lv, forecasts |-> fc] :
                st \in {"0", "1"},
                lv \in {<<>>} \cup {<<l>> : l \in Lives},
                fc \in {<<>>} \cup {<<[casts |-> cs]>> : cs \in SeqsUpTo(Casts, MaxCasts)}}

\* The calls node_fetch_weather may make, each with the answer the provider
\* gives to its request.
WeatherCalls ==
    {[mode |-> m, city |-> city, days |-> d, api_key |-> k, answer |-> r] :
        m \in {"base", "all", "forecast"}, city \in WeatherCityNames, d \in 0..MaxCasts,
        k \in ApiKeys, r \in ProviderAnswers}

WeatherSpecInit ==
    /\ TurnIdle /\ StoreInit /\ MemoryInit /\ AdminInit
    /\ weather_call \in {c \in WeatherCalls : c.mode = "forecast" \/ c.days = 1}
    /\ weather_result = [kind |-> "none"]
    /\ AliasInit

CallGetWeather ==
    /\ weather_result.kind = "none"
    /\ weather_call.mode \in {"base", "all"}
    /\ weather_result' = get_weather(weather_call.city, weather_call.mode,
                                     weather_call.api_key, weather_call.answer)
    /\ UNCHANGED <<weather_call, weather_frame>>

CallGetForecast ==
    /\ weather_result.kind = "none"
    /\ weather_call.mode = "forecast"
    /\ weather_result' = get_forecast(weather_call.city, weather_call.days,
                                      weather_call.api_key, weather_call.answer)
    /\ UNCHANGED <<weather_call, weather_frame>>

WeatherNext == CallGetWeather \/ CallGetForecast

WeatherSpec == WeatherSpecInit /\ [][WeatherNext]_vars

----------------------------------------------------------------------------
(* Concurrent turns: each request thread runs the stages that create or    *)
(* write objects, for a session of its choice, interleaved with the other. *)

AliasSpecInit == TurnIdle /\ StoreInit /\ MemoryInit /\ AdminInit /\ WeatherInit /\ AliasInit

\* chat(): last_state = store.get(session_id), then run_one_turn seeds the state.
TurnStart(t) ==
    /\ turns[t].pc = "idle"
    /\ \E s \in Sessions, follow_up \in BOOLEAN :
          turns' = [turns EXCEPT ![t] =
                        [pc |-> "intent_recognition", session_id |-> s,
                         follow_up |-> follow_up,
                         intent |-> SeedRefs(held[s]).intent,
                         trip_plan |-> SeedRefs(held[s]).trip_plan,
                         last_state |-> held[s]]]
    /\ UNCHANGED <<heap, held, alias_frame>>

TurnIntent(t) ==
    /\ turns[t].pc = "intent_recognition"
    /\ \E o \in ObjIds : heap[o] = Free
    /\ \E intent_type \in {"trip_planning", "clothing_advice"} :
          /\ heap' = [heap EXCEPT ![NewRef(heap)] = RoutedIntent(intent_type)]
          /\ turns' = [turns EXCEPT ![t].intent = NewRef(heap), ![t].pc = "clarify_gate"]
    /\ UNCHANGED <<held, alias_frame>>

TurnGate(t) ==
    /\ turns[t].pc = "clarify_gate"
    /\ heap' = GateWrite(heap, turns[t], turns[t].follow_up)
    /\ turns' = [turns EXCEPT ![t].pc =
                    IF GateWrite(heap, turns[t], turns[t].follow_up)[turns[t].intent].intent_type
                            = "trip_planning"
                    THEN "trip_planning" ELSE "END"]
    /\ UNCHANGED <<held, alias_frame>>

TurnPlanning(t) ==
    /\ turns[t].pc = "trip_planning"
    /\ \E o \in ObjIds : heap[o] = Free
    /\ PlannedObject(heap, turns[t]) # Null
    /\ \E risk_level \in {"low", "high"} :
          /\ heap' = PlanningWrite(heap, PlannedObject(heap, turns[t]), risk_level)
          /\ turns' = [turns EXCEPT ![t].trip_plan = PlannedObject(heap, turns[t]),
                                    ![t].pc = IF risk_level = "low" THEN "END"
                                              ELSE "risk_assessment"]
    /\ UNCHANGED <<held, alias_frame>>

TurnRisk(t) ==
    /\ turns[t].pc = "risk_assessment"
    /\ heap' = RiskWrite(heap, turns[t], "indoor")
    /\ turns' = [turns EXCEPT ![t].pc = "END"]
    /\ UNCHANGED <<held, alias_frame>>

\* chat(): store.set(session_id, final_state).
TurnEnd(t) ==
    /\ turns[t].pc = "END"
    /\ held' = [held EXCEPT ![turns[t].session_id] =
                    [present |-> TRUE, intent |-> turns[t].intent,
                     trip_plan |-> turns[t].trip_plan]]
    /\ turns' = [turns EXCEPT ![t] = IdleTurn]
    /\ UNCHANGED <<heap, alias_frame>>

AliasNext ==
    \E t \in Threads :
        \/ TurnStart(t)
        \/ TurnIntent(t)
        \/ TurnGate(t)
        \/ TurnPlanning(t)
        \/ TurnRisk(t)
        \/ TurnEnd(t)

AliasSpec == AliasSpecInit /\ [][AliasNext]_vars

----------------------------------------------------------------------------
(* Properties.                                                             *)

\* While a turn runs, last_state is what the turn was seeded with: the previous
\* completed turn's end-state, or nothing.
SeedState == IF last_state.present THEN last_state.state ELSE GraphState

\* What this turn's extraction supplies: the router's value, else the rewriter's slot.
ThisTurnCities ==
    IF state.intent.extracted_entities.cities # <<>>
    THEN state.intent.extracted_entities.cities ELSE state.rewrite_slots.cities
ThisTurnDuration ==
    IF state.intent.extracted_entities.duration_days # 0
    THEN state.intent.extracted_entities.duration_days
    ELSE IF state.duration_days_is_default THEN 0 ELSE state.rewrite_slots.duration_days
ThisTurnPreferences ==
    IF state.intent.extracted_entities.preferences # <<>>
    THEN state.intent.extracted_entities.preferences ELSE state.rewrite_slots.preferences

\* C1: once the entity merge of a turn has run, if this turn's extraction (router
\* or rewriter slots) supplies no cities, the turn's cities are the cities of the
\* previous turn's end-state it was seeded with; so a non-empty city list is
\* never cleared by a later turn.
C1_CitiesCarriedForward ==
    InList("intent_recognition", trace) =>
        /\ ThisTurnCities = <<>> => state.entities.cities = SeedState.entities.cities
        /\ SeedState.entities.cities # <<>> => state.entities.cities # <<>>

\* A turn that extracted no city ends with the city of the turn before it.
C1_Witness ==
    /\ pc = "END"
    /\ last_state.present
    /\ SeedState.entities.cities = <<CityA>>
    /\ ThisTurnCities = <<>>
    /\ state.entities.cities = <<CityA>>

ExcludedDisjointFromIncluded(st) ==
    \A i \in 1..Len(st.excluded_places), j \in 1..Len(st.included_places) :
        /\ ~Contains(st.excluded_places[i], st.included_places[j])
        /\ ~Contains(st.included_places[j], st.excluded_places[i])

\* C3: in the running state, in the stored state and in the seed, no entry of
\* excluded_places is a substring or a superstring of an entry of
\* included_places; a newly excluded place that matches an included one is
\* therefore absent after the merge.
C3_ExcludedIncludedDisjoint ==
    /\ ExcludedDisjointFromIncluded(state)
    /\ ExcludedDisjointFromIncluded(store.state)
    /\ ExcludedDisjointFromIncluded(last_state.state)

\* The merge has just dropped a new exclusion that matches a carried inclusion.
C3_Witness ==
    /\ pc = "clarify_gate"
    /\ state.intent.extracted_entities.excluded_places = <<PlaceHzXihu>>
    /\ InList(PlaceXihu, SeedState.included_places)
    /\ ~InList(PlaceHzXihu, state.excluded_places)
    /\ InList(PlaceXihu, state.included_places)

\* C4: the initial state of a turn has the seven whitelisted fields of the
\* previous end-state (defaults without one), the eleven reset fields at their
\* reset values, user_input as given, and the one remaining field
\* (duration_days_is_default) at its default.
C4_InitialStateFrame ==
    pc = "rewrite" =>
        /\ \A k \in {"messages", "entities", "user_profile", "weather_data", "trip_plan",
                     "excluded_places", "included_places"} : state[k] = SeedState[k]
        /\ state.rewritten_query = <<>>
        /\ state.rewrite_slots = SlotsEmpty
        /\ state.need_clarification = FALSE
        /\ state.clarifying_questions = <<>>
        /\ state.clarify_only = FALSE
        /\ state.intent = NoIntent
        /\ state.clothing_advice = NoText
        /\ state.final_response = NoText
        /\ state.current_node = ""
        /\ state.needs_replan = FALSE
        /\ state.error_message = ""
        /\ state.user_input \in UserInputs
        /\ state.duration_days_is_default = FALSE

\* A turn starts after a turn that ended with a plan, a response and the
\* default-duration flag set.
C4_Witness ==
    /\ pc = "rewrite"
    /\ last_state.present
    /\ last_state.state.trip_plan.present
    /\ last_state.state.final_response # NoText
    /\ last_state.state.duration_days_is_default
    /\ state.trip_plan = last_state.state.trip_plan

\* A trip-planning turn that ends with no city known, from the seed or from the turn.
AskCityTurn ==
    /\ pc = "END"
    /\ state.intent.intent_type = "trip_planning"
    /\ SeedState.entities.cities = <<>>
    /\ ThisTurnCities = <<>>

C6_StormOrSnow(day) ==
    /\ day.weather.present
    /\ \/ Contains(day.weather.weather, <<"bao">>)
       \/ Contains(day.weather.weather, <<"xue">>)

\* C6 as the specification states it: at the end of a trip-planning turn, a
\* day-entry whose weather condition holds a storm/snow keyword means that
\* needs_replan is set, that the risk-assessment stage has run, and that the
\* day-entry has a non-empty backup_plan.
C6_StormDayHasBackup ==
    (pc = "END" /\ InList("trip_planning", trace)) =>
        \A i \in 1..Len(state.trip_plan.days) :
            C6_StormOrSnow(state.trip_plan.days[i]) =>
                /\ state.needs_replan
                /\ InList("risk_assessment", trace)
                /\ state.trip_plan.days[i].backup_plan # ""

\* The tier the specification assigns to a weather snapshot.
C7_Tier(w) ==
    IF w.present /\ (Contains(w.weather, <<"bao">>) \/ Contains(w.weather, <<"xue">>))
    THEN "high"
    ELSE IF w.present /\ Contains(w.weather, <<"yu">>) THEN "medium"
    ELSE "low"

\* C7: once the planning stage has run, every day-entry's risk tier is high
\* when its condition text holds a storm/snow keyword (with or without a rain
\* keyword), medium when it holds a rain keyword only, low otherwise (also
\* without a weather snapshot); and needs_replan holds exactly when some
\* day-entry is medium or high.
C7_RiskTierDerivation ==
    InList("trip_planning", trace) =>
        /\ \A i \in 1..Len(state.trip_plan.days) :
              state.trip_plan.days[i].risk_level = C7_Tier(state.trip_plan.days[i].weather)
        /\ state.needs_replan <=>
              \E i \in 1..Len(state.trip_plan.days) :
                  state.trip_plan.days[i].risk_level \in {"medium", "high"}

\* A plan with a "暴雨" day (rain and storm keyword: high) and a day without a
\* weather snapshot (low).
C7_Witness ==
    /\ pc = "END"
    /\ InList("trip_planning", trace)
    /\ \E i, j \in 1..Len(state.trip_plan.days) :
          /\ state.trip_plan.days[i].weather = WeatherInfo(CondStorm)
          /\ state.trip_plan.days[i].risk_level = "high"
          /\ ~state.trip_plan.days[j].weather.present
          /\ state.trip_plan.days[j].risk_level = "low"
    /\ state.needs_replan

\* C8 as the specification states it, for a turn that carries no duration: at
\* the end of a trip-planning turn with a known city in which neither the
\* rewriter's slots nor the router supplied a duration, the duration slot is 1
\* and a question about the duration ("天", "多久") is among the questions
\* appended to the final response.
C8_DefaultDurationAsked ==
    ( /\ pc = "END"
      /\ state.intent.intent_type = "trip_planning"
      /\ InList("trip_planning", trace)
      /\ state.entities.cities # <<>>
      /\ state.duration_days_is_default
      /\ state.intent.extracted_entities.duration_days = 0
      /\ SeedState.entities.duration_days = 0 )
    =>  /\ state.rewrite_slots.duration_days = 1
        /\ \E i \in 1..Len(state.final_response.questions) :
              \/ Contains(state.final_response.questions[i], <<"tian">>)
              \/ Contains(state.final_response.questions[i], <<"duojiu">>)

\* C9: a step in which a stage raises leaves the session's stored state as it
\* was: the HTTP store is unchanged and still yields what the aborted turn was
\* seeded with, and the CLI's last_state is unchanged; so the next turn is
\* seeded from the last completed turn.
C9_AbortKeepsSession ==
    [][ (pc \in RaisingStages /\ pc' = "idle") =>
            /\ store' = store
            /\ frontend = "http" => StoreGet(store') = last_state
            /\ frontend = "cli" => last_state' = last_state ]_vars

\* A turn has been aborted while the store holds an earlier turn's end-state.
C9_Witness ==
    /\ pc = "idle"
    /\ reply.kind = "raw_error"
    /\ frontend = "http"
    /\ store.present /\ ~store.expired
    /\ store.state.entities.cities # <<>>

\* C10 as the specification states it: what the caller receives for a turn is a
\* natural-language response (the stage's text or the generic apology), never
\* a raw error.
C10_NeverRawError == reply.kind \in {"none", "response", "apology"}

\* C11: a turn that runs to completion returns its final state with one
\* non-empty response: when the graph has ended, final_response is not empty
\* on any path, and it is the text the caller receives; the apology is what
\* run_one_turn returns for an empty final_response.
C11_CompletedTurnHasResponse ==
    [][ pc = "END" =>
            /\ state.final_response # NoText
            /\ reply' = [kind |-> "response", text |-> state.final_response]
            /\ Response([state EXCEPT !.final_response = NoText]).kind = "apology" ]_vars

\* A turn on the fallback path (intent general_chat or unknown) has been answered.
C11_Witness ==
    /\ pc = "idle"
    /\ reply.kind = "response"
    /\ reply.text = FallbackText

\* The stages a turn in state st runs, in order: the three leading stages,
\* then either the memory update alone (gate outcome "ask") or memory load,
\* weather fetch, the branch of the intent the gate left, formatting and
\* memory update.  The planning branch ends with risk_assessment when the
\* planning stage set needs_replan.
C14_Stages(st) ==
    <<"rewrite", "intent_recognition", "clarify_gate">> \o
    ( IF st.clarify_only THEN <<"update_memory">>
      ELSE <<"load_memory", "fetch_weather">> \o
           ( CASE st.intent.present /\ st.intent.intent_type = "clothing_advice" ->
                      <<"clothing_advice">>
               [] st.intent.present /\ st.intent.intent_type = "trip_planning" ->
                      IF st.needs_replan THEN <<"trip_planning", "risk_assessment">>
                      ELSE <<"trip_planning">>
               [] st.intent.present /\ st.intent.intent_type = "general_qa" ->
                      <<"general_qa">>
               [] OTHER -> <<>> ) \o
           <<"format_response", "update_memory">> )

C15_Elems(s) == {s[i] : i \in 1..Len(s)}

\* C15: once the entity merge of a turn has run, entities.preferences has no
\* duplicate, begins with the preferences the turn was seeded with (none is
\* lost, their order is kept), holds exactly the seeded and the newly
\* extracted preferences, and is the seeded list itself when every newly
\* extracted preference was already held.
C15_PreferencesUnion ==
    InList("intent_recognition", trace) =>
        LET old == SeedState.entities.preferences
            new == ThisTurnPreferences
            merged == state.entities.preferences
        IN  /\ \A i, j \in 1..Len(merged) : i # j => merged[i] # merged[j]
            /\ Len(old) <= Len(merged)
            /\ SubSeq(merged, 1, Len(old)) = old
            /\ C15_Elems(merged) = C15_Elems(old) \cup C15_Elems(new)
            /\ C15_Elems(new) \subseteq C15_Elems(old) => merged = old

\* A turn extracted a preference the session already held, together with a new
\* one, and the list grew by the new one only.
C15_Witness ==
    /\ pc = "END"
    /\ SeedState.entities.preferences = <<"quiet">>
    /\ state.intent.extracted_entities.preferences = <<"food", "quiet">>
    /\ state.entities.preferences = <<"quiet", "food">>

\* C16: once the entity merge of a turn has run, entities.duration_days is
\* this turn's genuine duration (the router's, else a rewriter slot that is not
\* the default) when there is one, and otherwise the seeded duration; a turn
\* whose only duration is the defaulted 1 keeps the seeded duration.
C16_DurationMerge ==
    InList("intent_recognition", trace) =>
        /\ ThisTurnDuration # 0 => state.entities.duration_days = ThisTurnDuration
        /\ ThisTurnDuration = 0 =>
              state.entities.duration_days = SeedState.entities.duration_days
        /\ ( /\ state.duration_days_is_default
             /\ state.intent.extracted_entities.duration_days = 0 ) =>
              /\ state.rewrite_slots.duration_days = 1
              /\ state.entities.duration_days = SeedState.entities.duration_days

\* A turn with only the defaulted 1 has kept the duration of the turn before it.
C16_Witness ==
    /\ pc = "END"
    /\ SeedState.entities.duration_days = 3
    /\ state.duration_days_is_default
    /\ state.rewrite_slots.duration_days = 1
    /\ state.intent.extracted_entities.duration_days = 0
    /\ state.entities.duration_days = 3

\* C18 as the specification states it: once the planning stage has run in a
\* turn whose excluded_places is not empty, no activity of the plan in the turn
\* state has a name that contains an entry of excluded_places.
C18_PlanAvoidsExcluded ==
    (InList("trip_planning", trace) /\ state.excluded_places # <<>>) =>
        \A d \in 1..Len(state.trip_plan.days) :
            \A a \in 1..Len(state.trip_plan.days[d].activities) :
                \A e \in 1..Len(state.excluded_places) :
                    ~Contains(state.trip_plan.days[d].activities[a], state.excluded_places[e])

\* C12: whenever no get is under way, a get of a session returns the state last
\* stored by set for it exactly when that write is at most the time-to-live old,
\* and no state otherwise (never written, reset, or written longer ago).
C12_GetReturnsLastWrite ==
    (\A t \in Threads : popping[t] = "") =>
        \A s \in Sessions :
            InMemorySessionStore_get(session_db, s, now) =
                IF written[s].present /\ now - written[s].updated_at <= Ttl
                THEN Some(written[s].state)
                ELSE None

\* Whether text a counts as a near-duplicate of text b: their similarity is at or
\* above the threshold.
NearDuplicate(a, b) == AtLeast(text_similarity(a, b), similarity_threshold)

\* C20: after any sequence of add_preference calls from the empty store, no two
\* stored preference records are near-duplicates of each other.
C20_NoNearDuplicatesStored ==
    LET prefs == PreferenceDocuments(memory)
    IN  \A m, n \in 1..Len(prefs) :
            m # n => ~NearDuplicate(prefs[m].page_content, prefs[n].page_content)

\* (C20, first part) a text that is empty after stripping, or that is a
\* near-duplicate of a stored preference, leaves the store as it is.
C20_DuplicateOrEmptyIsNoOp ==
    \A content \in PreferenceTexts :
        (\/ Strip(content) = <<>>
         \/ \E n \in 1..Len(memory) :
                /\ memory[n].type = "preference"
                /\ NearDuplicate(content, memory[n].page_content))
            => add_preference(memory, content) = memory

\* C13: a wipe command that arrives while no token is configured, or with a
\* token other than the configured one, is refused: the long-term memory and
\* the session's carried state stay as they were and no turn is started.
C13_RejectedWipeChangesNothing ==
    [][ (/\ command' # command
         /\ (purge_token = <<>> \/ command'.token # purge_token))
            => /\ reply'.kind \in {"rejected", "http_500"}
               /\ memory' = memory
               /\ store' = store
               /\ last_state' = last_state
               /\ pc' = "idle" /\ state' = state /\ trace' = trace ]_vars

C13_Witness ==
    /\ purge_token = <<"secret">>
    /\ command.token = <<"wrong">>
    /\ reply.kind = "rejected"
    /\ memory # <<>>
    /\ store.present

\* The call is one of the claim's failure cases: an unknown city, a failed
\* request, a body that is not JSON, or an error status.
C17_Failure(c) ==
    /\ c.api_key # ""
    /\ \/ ~get_city_code(c.city)
       \/ c.answer.kind \in {"request_failed", "not_json"}
       \/ c.answer.status # "1"

C17_IsPlaceholder(r) == r.kind = "info" /\ r.weather \in Placeholders

\* C17: the weather tool never raises, and on an unknown city, a provider
\* failure or an unparseable body it returns a placeholder record (forecast
\* mode: a list holding one).
C17_WeatherNeverRaises ==
    /\ weather_result.kind # "raised"
    /\ (weather_result.kind # "none" /\ C17_Failure(weather_call)) =>
          IF weather_call.mode = "forecast"
          THEN /\ weather_result.kind = "list"
               /\ Len(weather_result.items) = 1
               /\ C17_IsPlaceholder(weather_result.items[1])
          ELSE C17_IsPlaceholder(weather_result)

\* The objects a turn state or a stored state refers to.
C19_Refs(r) == {r.intent, r.trip_plan} \ {Null}

\* C19: when a stage of one turn writes an object that already exists, no other
\* turn under way refers to that object, and no state held in the session
\* store does.
C19_WritesStayInTheTurn ==
    [][ \A o \in ObjIds :
            (heap[o] # Free /\ heap'[o] # heap[o]) =>
                /\ \A t \in Threads : turns'[t] = turns[t] => o \notin C19_Refs(turns[t])
                /\ \A s \in Sessions : o \notin C19_Refs(held[s]) ]_vars

\* Two turns of one session are under way on the same carried plan, which the
\* store holds too, and one of them has had its intent rewritten by the gate.
C19_Witness ==
    /\ turns["t1"].trip_plan # Null
    /\ turns["t1"].trip_plan = turns["t2"].trip_plan
    /\ held["s1"].present /\ held["s1"].trip_plan = turns["t1"].trip_plan
    /\ turns["t1"].pc = "END" /\ turns["t1"].follow_up
    /\ heap[turns["t1"].intent].intent_type = "clothing_advice"
    /\ turns["t2"].pc = "trip_planning"

\* C21: right after a rewrite stage that found no duration, the duration slot
\* is 1 and the stage's (truncated) question list holds a question about the
\* trip length.
C21_DefaultDurationQuestionKept ==
    (trace = <<"rewrite">> /\ state.duration_days_is_default) =>
        /\ state.rewrite_slots.duration_days = 1
        /\ \E i \in 1..Len(state.clarifying_questions) :
              ImpliesDuration(state.clarifying_questions[i])

\* C22: when the planning stage is about to run in a turn whose duration was
\* defaulted (none from the router, none carried) and no dates are known, the
\* weather stage has used a duration of 1 and the plan generator is handed a
\* duration of 1 day.
C22_DefaultedDurationIsOneDownstream ==
    ( /\ pc = "trip_planning"
      /\ state.duration_days_is_default
      /\ state.intent.extracted_entities.duration_days = 0
      /\ SeedState.entities.duration_days = 0
      /\ state.entities.dates = <<>> )
    =>  /\ DurationOrOne(state) = 1
        /\ PlannerDurationDays(state.entities) = 1

\* C23: once the weather stage has run, weather_data holds exactly one entry per
\* known city (the fallback city when none is known) and nothing else, whatever
\* the previous turn carried; every entry is a forecast of at most duration_days
\* days when the intent is clothing_advice and duration_days > 1, and one
\* current snapshot otherwise.
C23_KnownCities ==
    IF state.entities.cities = <<>> THEN {FallbackCity}
    ELSE {state.entities.cities[i] : i \in 1..Len(state.entities.cities)}

C23_WeatherFetchVariant ==
    InList("fetch_weather", trace) =>
        LET forecast == IntentTypeOf(state) = "clothing_advice"
                            /\ state.entities.duration_days > 1
            data == state.weather_data
        IN  /\ Len(data) = Cardinality(C23_KnownCities)
            /\ \A i \in 1..Len(data) :
                  /\ data[i].city \in C23_KnownCities
                  /\ \A j \in 1..Len(data) : data[j].city = data[i].city => j = i
                  /\ data[i].multi = forecast
                  /\ forecast => Len(data[i].recs) <= state.entities.duration_days
                  /\ ~forecast => Len(data[i].recs) = 1

\* A forecast turn following a turn that carried a snapshot.
C23_Witness ==
    /\ InList("fetch_weather", trace)
    /\ last_state.present
    /\ Len(last_state.state.weather_data) > 0
    /\ ~last_state.state.weather_data[1].multi
    /\ Len(state.weather_data) = 1
    /\ state.weather_data[1].multi
    /\ Len(state.weather_data[1].recs) > 1

\* C24: what the weather stage stores for a city when it asks for a forecast of
\* more than one day (and the call returns) is a non-empty sequence of records.
C24_ForecastEntryNonEmpty ==
    ( /\ weather_call.mode = "forecast"
      /\ weather_call.days > 1
      /\ weather_result.kind = "list" )
    => weather_result.items # <<>>

\* C25: in a turn that generated a plan, every weather_data entry is a single
\* snapshot; a day whose city is a key carries that snapshot, a day whose city
\* is not a key has no weather and risk tier low; so days of the same city carry
\* the same weather and the same risk tier.
C25_Snapshot(city) ==
    LET data == state.weather_data
    IN  IF \E k \in 1..Len(data) : data[k].city = city
        THEN data[CHOOSE k \in 1..Len(data) : data[k].city = city].recs[1]
        ELSE NoWeather

C25_OneSnapshotPerCity ==
    InList("trip_planning", trace) =>
        LET data == state.weather_data
            days == state.trip_plan.days
        IN  /\ \A k \in 1..Len(data) : ~data[k].multi /\ Len(data[k].recs) = 1
            /\ \A i \in 1..Len(days) :
                  /\ days[i].weather = C25_Snapshot(days[i].city)
                  /\ (\A k \in 1..Len(data) : data[k].city # days[i].city) =>
                        ~days[i].weather.present /\ days[i].risk_level = "low"
                  /\ \A j \in 1..Len(days) :
                        days[j].city = days[i].city =>
                            /\ days[j].weather = days[i].weather
                            /\ days[j].risk_level = days[i].risk_level

\* A two-day plan for one known city under a storm, whatever the duration.
C25_Witness ==
    /\ InList("trip_planning", trace)
    /\ Len(state.trip_plan.days) = 2
    /\ state.trip_plan.days[1].city = state.trip_plan.days[2].city
    /\ state.trip_plan.days[1].weather = WeatherInfo(CondStorm)
    /\ state.trip_plan.days[2].risk_level = "high"

\* C26: the risk-assessment stage runs only directly after a planning stage of
\* the same turn that set needs_replan, and the stage that follows planning is
\* risk assessment when needs_replan is set and finalization when it is not; a
\* turn without a planning stage never runs risk assessment.
C26_RiskAssessmentIffReplan ==
    /\ \A i \in 1..Len(trace) :
          trace[i] = "risk_assessment" =>
              i > 1 /\ trace[i - 1] = "trip_planning" /\ state.needs_replan
    /\ \A i \in 1..Len(trace) :
          trace[i] = "trip_planning" =>
              (IF i < Len(trace) THEN trace[i + 1] ELSE pc) =
                  (IF state.needs_replan THEN "risk_assessment" ELSE "format_response")

\* A finished planning turn that went through risk assessment.
C26_Witness ==
    /\ pc = "END"
    /\ InList("risk_assessment", trace)
    /\ state.needs_replan

\* C27: in every reachable state, in the plan of the running turn, of the state
\* kept for the next turn and of the session store, a day with a non-empty
\* backup text has risk tier medium or high (a low-risk day has none).
C27_PlanOk(p) ==
    \A i \in 1..Len(p.days) :
        p.days[i].backup_plan # "" => p.days[i].risk_level \in {"medium", "high"}

C27_BackupOnlyForRiskyDays ==
    /\ C27_PlanOk(state.trip_plan)
    /\ last_state.present => C27_PlanOk(last_state.state.trip_plan)
    /\ StoreGet(store).present => C27_PlanOk(StoreGet(store).state.trip_plan)

\* A later turn whose assessed plan has a risky day with a backup and a low-risk
\* day without one.
C27_Witness ==
    /\ last_state.present
    /\ InList("risk_assessment", trace)
    /\ \E i, j \in 1..Len(state.trip_plan.days) :
          /\ state.trip_plan.days[i].risk_level = "high"
          /\ state.trip_plan.days[i].backup_plan # ""
          /\ state.trip_plan.days[j].risk_level = "low"
          /\ state.trip_plan.days[j].backup_plan = ""

\* C28: a finalization step changes the stage label only when a response exists
\* already or the intent is clothing_advice; otherwise it changes the label and
\* the response only, to a rendered plan for a trip_planning intent with a plan
\* and to the generic fallback message in every other case.
C28_LabelOnly == state' = [state EXCEPT !.current_node = "format_response"]

C28_FinalizationRules ==
    [][ (pc = "format_response" /\ pc' = "update_memory") =>
            IF state.final_response # NoText \/ IntentTypeOf(state) = "clothing_advice"
            THEN C28_LabelOnly
            ELSE /\ [state' EXCEPT !.final_response = NoText] =
                        [state EXCEPT !.current_node = "format_response"]
                 /\ IF IntentTypeOf(state) = "trip_planning" /\ state.trip_plan.present
                    THEN state'.final_response.kind = "plan"
                    ELSE state'.final_response = FallbackText ]_vars

\* A Q&A answer that went through finalization untouched.
C28_Witness ==
    /\ pc = "update_memory"
    /\ trace[Len(trace)] = "format_response"
    /\ InList("general_qa", trace)
    /\ state.final_response \notin {NoText, FallbackText}

\* C29: the questions appended to a rendered plan are at most two, are the first
\* remaining ones of the turn's question list in order, and none of them asks
\* for something that is known: the city, the duration or the budget.
C29_Answered(q) ==
    \/ state.entities.cities # <<>> /\ AnyIn(CityKws, q)
    \/ state.entities.duration_days # 0 /\ AnyIn(DurationKws, q)
    \/ state.entities.budget # "" /\ Contains(q, <<"yusuan">>)

C29_OnlyUnansweredAppended ==
    ( /\ pc = "update_memory"
      /\ InList("trip_planning", trace)
      /\ state.final_response.kind = "plan" )
    =>  LET appended == state.final_response.questions
        IN  /\ Len(appended) <= 2
            /\ appended = Take(FilteredQuestions(state), 2)
            /\ \A i \in 1..Len(appended) : ~C29_Answered(appended[i])

\* C30: a memory-update step changes the stage label only, and when the stage
\* fails instead, the caller still gets the response the turn had computed.
C30_MemoryUpdateKeepsResponse ==
    [][ pc = "update_memory" =>
            /\ pc' = "END" => state' = [state EXCEPT !.current_node = "update_memory"]
            /\ pc' = "idle" => reply' = Response(state) ]_vars

\* C31: when the planning stage is about to run, the directive it attaches is
\* empty if the carried state holds no plan or no keyword class matches the
\* text; otherwise it is the directive of the first matching class in the order
\* higher-budget, lower-budget, livelier, quieter, more-interesting.
C31_Matches(k) == AnyIn(HintClasses[k].kws, Lower(state.user_input))

C31_AtMostOneDirective ==
    pc = "trip_planning" =>
        LET hint == adjustment_hint(state)
        IN  /\ (~SeedState.trip_plan.present \/ \A k \in DOMAIN HintClasses : ~C31_Matches(k))
                  => hint = ""
            /\ (SeedState.trip_plan.present /\ \E k \in DOMAIN HintClasses : C31_Matches(k))
                  => \E k \in DOMAIN HintClasses :
                        /\ hint = HintClasses[k].hint
                        /\ C31_Matches(k)
                        /\ \A j \in 1..(k - 1) : ~C31_Matches(j)

\* A plan is carried and the text matches the quieter and the lower-budget class.
C31_Witness ==
    /\ pc = "trip_planning"
    /\ SeedState.trip_plan.present
    /\ C31_Matches(2) /\ C31_Matches(4)
    /\ adjustment_hint(state) = "budget_down"

\* C32: once the gate has run in a turn whose text references the earlier plan
\* with outfit vocabulary while the carried state holds a plan, the intent is
\* clothing_advice with confidence at least 0.9 and the turn runs the
\* outfit-advice stage.
C32_PlanOutfitFollowUp ==
    /\ SeedState.trip_plan.present
    /\ AnyIn(PlanKws, Lower(state.user_input))
    /\ AnyIn(OutfitKws, Lower(state.user_input))

C32_FollowUpReclassified ==
    (InList("clarify_gate", trace) /\ C32_PlanOutfitFollowUp) =>
        /\ state.intent.intent_type = "clothing_advice"
        /\ state.intent.confidence >= 9
        /\ pc = "END" => InList("clothing_advice", trace)

C34_Reinterpreted ==
    /\ InList("clarify_gate", trace)
    /\ IsFollowUp(state)
    /\ SeedState.trip_plan.present
    /\ state.intent.intent_type = "clothing_advice"
    /\ state.intent.confidence >= 9

C34_FollowUpReachesOutfitAdvice ==
    C34_Reinterpreted =>
        /\ ~state.clarify_only
        /\ state.final_response # AskActivityText
        /\ state.trip_plan = SeedState.trip_plan
        /\ pc = "END" => InList("clothing_advice", trace)

\* C35: once the intent stage has run, entities.dates is the router's dates if
\* it gave any, else the rewrite slot's dates_text if there is one, else the
\* carried dates; entities.budget likewise; a new value replaces the carried
\* one entirely.
C35_ThisTurnDates ==
    IF state.intent.extracted_entities.dates # <<>>
    THEN state.intent.extracted_entities.dates
    ELSE IF state.rewrite_slots.dates_text # "" THEN <<state.rewrite_slots.dates_text>>
    ELSE <<>>

C35_ThisTurnBudget ==
    IF state.intent.extracted_entities.budget # ""
    THEN state.intent.extracted_entities.budget
    ELSE state.rewrite_slots.budget_text

C35_DatesBudgetLastWriteWins ==
    InList("intent_recognition", trace) =>
        /\ state.entities.dates =
              IF C35_ThisTurnDates # <<>> THEN C35_ThisTurnDates
              ELSE SeedState.entities.dates
        /\ state.entities.budget =
              IF C35_ThisTurnBudget # "" THEN C35_ThisTurnBudget
              ELSE SeedState.entities.budget

\* The router's budget wins over the slot's, and the slot's date replaces the
\* two dates carried from the turn before.
C35_Witness ==
    /\ pc = "END"
    /\ SeedState.entities.dates = <<"d2", "d3">>
    /\ state.rewrite_slots.budget_text = "2000"
    /\ state.intent.extracted_entities.budget = "3000"
    /\ state.entities.budget = "3000"
    /\ state.entities.dates = <<"wuyi">>

\* C36: while a turn runs and once it has ended, trip_plan equals the carried
\* plan (risk tiers and backup texts included) unless the planning stage ran in
\* the turn; right after the planning stage the plan is a fresh one: it holds
\* no backup text, so nothing of the earlier plan survives in it.
C36_PlanChangesOnlyByPlanning ==
    /\ (pc # "idle" /\ ~InList("trip_planning", trace)) =>
            state.trip_plan = SeedState.trip_plan
    /\ (trace # <<>> /\ trace[Len(trace)] = "trip_planning") =>
            /\ state.trip_plan.present
            /\ Len(state.trip_plan.days) <= MaxDays
            /\ \A i \in 1..Len(state.trip_plan.days) :
                  state.trip_plan.days[i].backup_plan = ""

\* An outfit turn has ended with the carried plan, backup text included, and
\* that plan is not the empty one.
C36_Witness ==
    /\ pc = "END"
    /\ InList("clothing_advice", trace)
    /\ state.trip_plan = SeedState.trip_plan
    /\ \E i \in 1..Len(state.trip_plan.days) : state.trip_plan.days[i].backup_plan # ""

\* C37: in the HTTP service a step that empties a non-empty long-term memory
\* is the answer to a request whose token equals the configured, non-empty
\* purge token.
C37_WipeNeedsToken ==
    [][ (frontend = "http" /\ memory # <<>> /\ memory' = <<>>) =>
            /\ purge_token # <<>>
            /\ reply'.kind = "purged"
            /\ SuppliedToken(command'.text) = purge_token ]_vars

\* C38: the cleanup of a get removes a record only if that record is expired:
\* a step that deletes a session's record without a reset of that session
\* deletes a record older than the time-to-live, never one a concurrent set
\* has just written.
C38_CleanupRemovesOnlyExpired ==
    [][ \A s \in Sessions :
            ( /\ session_db[s].present
              /\ ~session_db'[s].present
              /\ written'[s] = written[s] )
            => InMemorySessionStore_expired(session_db, s, now) ]_vars

\* C39: a turn that ends and stores its state was seeded from the state the
\* session holds at that moment, so the stored state builds on the one stored by
\* the turn completed before it.
C39_NoLostTurn ==
    [][ \A t \in Threads :
            (turns[t].pc = "END" /\ turns'[t].pc = "idle") =>
                turns[t].last_state = held[turns[t].session_id] ]_vars

\* C40: a started turn reaches the end of the graph; no stage runs twice in a
\* turn; update_memory, once run, is the last stage; and at the end
\* format_response has run exactly when the gate did not ask.
C40_StagesOnceEach ==
    /\ \A i, j \in 1..Len(trace) : trace[i] = trace[j] => i = j
    /\ InList("update_memory", trace) => trace[Len(trace)] = "update_memory"
    /\ pc = "END" =>
          /\ trace[Len(trace)] = "update_memory"
          /\ InList("format_response", trace) <=> ~state.clarify_only

====
